---- MODULE Spec2Model ----
(***************************************************************************)
(* Model of the render-api job worker (app/worker.py), the API operations  *)
(* that feed it (app/api.py) and the checkpoints of the render pipeline    *)
(* (app/renderer.py).                                                      *)
(*                                                                         *)
(* The job and artifact tables hold only committed rows: a row changes     *)
(* exactly when session.commit() succeeds.  Every log write, log open and  *)
(* commit is an I/O call that either returns or raises; the model draws    *)
(* the outcome with \E ok \in BOOLEAN.                                     *)
(*                                                                         *)
(* Progress values are the source's fractions multiplied by ProgressUnit,  *)
(* so that 0.2 + (index / N) * 0.6 is an exact integer for every N.        *)
(***************************************************************************)
EXTENDS Integers, Sequences, FiniteSets, TLC

\* ------------------------------------------------------------------ bounds
MaxJobs == 2
MaxScenes == 2
\* how far a failure message may exceed the truncation limit
MaxOver == 1
\* the longest project whose checkpoints are followed one by one; the value
\* reported for AUDIO_PREP passes 1.0 at scene index 46
ManyScenes == 47
\* scenes per project and images per scene where render_project is followed
\* call by call
PipeScenes == 2
PipeImages == 2
\* images per scene and entries per timeline where the durations of a scene
\* are allocated
AllocImages == 2
MaxTimeline == 2

\* ------------------------------------------------------- program constants
\* worker.py:106  error=str(exc)[:2000]
ErrorLimit == 2000

\* job ids are opaque (uuid4 hex); the model names a job by its position in
\* the order of insertion, and the worker never reads that order from the id
NoJob == 0
Pids == {"p1"}
\* the processes and threads that may run worker.loop(): "main" is
\* `python -m app.worker`, "inline" the thread api.py starts, and "second"
\* is another `python -m app.worker` started against the same store
Procs == {"main", "inline", "second"}
OutputNames == {"video.mp4"}

RECURSIVE Factorial(_)
Factorial(n) == IF n <= 1 THEN 1 ELSE n * Factorial(n - 1)

\* one hundredth of the progress range, as an integer
Hundredth == Factorial(MaxScenes)
ProgressUnit == 100 * Hundredth

Min(a, b) == IF a <= b THEN a ELSE b

\* stage labels; SCENE_BUILD carries the scene index (f"SCENE_BUILD[{idx}]")
Stage(name) == <<name>>
SceneBuildStage(i) == <<"SCENE_BUILD", i>>

\* exceptions: the text of str(exc) is identified by its kind, and len is its
\* length in characters
NoError == [kind |-> "None", len |-> 0]
\* the messages that embed captured output of an external command have no
\* bound on their length; the others are one short line
ShortLen == 1
MsgLens(kind) ==
    IF kind = "CommandFailed"
    THEN {ShortLen, ErrorLimit, ErrorLimit + MaxOver}
    ELSE {ShortLen}
Exc(kind, len) == [kind |-> kind, len |-> len]

\* str(exc)[:2000]
Truncate(e) == [kind |-> e.kind, len |-> Min(e.len, ErrorLimit)]

VARIABLES
    jobs,          \* committed rows of table "jobs": job id -> row
    artifacts,     \* committed rows of table "artifacts", in insertion order
    projects,      \* committed rows of table "projects": pid -> row
    now,           \* the clock that stamps created_at
    pc,            \* each worker's position in loop()
    job,           \* the job the worker's iteration dequeued (job_id)
    exc,           \* the exception the worker's except clause caught
    raising,       \* an exception is propagating out of the iteration
    log_open,      \* the per-job log file handle is open
    pending,       \* artifacts added to the session and not yet committed
    scenes,        \* len(scenes) of the project being rendered
    index,         \* the scene index of render_project's loop
    started,       \* history: job ids in the order they were marked RUNNING
    invoked,       \* history: job ids in the order render_project was called
    INLINE_WORKER_ENABLED,
    api,           \* the serving process: "init", "serving", "stopped"
    worker_thread, \* the global _worker_thread: "None" or "Thread"
    thread_state,  \* the inline thread: "unstarted", "running", "crashed"
    worker_stop,   \* the global _worker_stop: "None" or "Event"
    stop_set,      \* the threading.Event created at startup has been set
    meter,         \* one job's persisted progress over a project of n scenes
    rp_pc,         \* the position of one render_project call
    opts,          \* its argument opts (the job payload's render options)
    video_meta,    \* the "video"/"vid" object of scenes.json
    environ,       \* the environment variables the module reads
    scene_count,   \* len(scenes)
    scene_index,   \* the local index of the for loop over the scenes
    scene,         \* the local scene: the fields read so far
    tts_api,       \* the local tts_api after lines 396-406
    tts_voice,     \* the local tts_voice after lines 416-426
    img_index,     \* the position of the loops over one scene's images
    scene_files,   \* the local scene_files: the scenes whose clip is written
    reported,      \* history: the checkpoints reported, in order
    events,        \* history: the calls made since the loop iteration began
    outcome,       \* running, returned or the exception raised
    final,         \* output_name, and the final concatenation's inputs,
                   \* the file it wrote and the path returned
    alloc,         \* one scene's duration allocation (renderer.py:526-547)
    synth,         \* one call of synthesize_azure or synthesize_xtts
    anchor,        \* one call of _title_coordinates
    settings,      \* one call's resolution of its options (renderer.py:386-438)
    store          \* the storage volume as the API and the worker address it

coreVars == <<jobs, artifacts, projects, now, pc, job, exc, raising,
              log_open, pending, scenes, index, started, invoked,
              INLINE_WORKER_ENABLED, api, worker_thread, thread_state,
              worker_stop, stop_set>>
pipeVars == <<rp_pc, opts, video_meta, environ, scene_count, scene_index,
              scene, tts_api, tts_voice, img_index, scene_files, reported,
              events, outcome, final>>
fnVars == <<synth, anchor, settings, store>>
auxVars == <<meter, pipeVars, alloc, fnVars>>
notMeter == <<coreVars, pipeVars, alloc, fnVars>>
notPipe == <<coreVars, meter, alloc, fnVars>>
notAlloc == <<coreVars, meter, pipeVars, fnVars>>
notSynth == <<coreVars, meter, pipeVars, alloc, anchor, settings, store>>
notAnchor == <<coreVars, meter, pipeVars, alloc, synth, settings, store>>
notSettings == <<coreVars, meter, pipeVars, alloc, synth, anchor, store>>
notStore == <<coreVars, meter, pipeVars, alloc, synth, anchor, settings>>
vars == <<coreVars, auxVars>>

dbVars == <<jobs, artifacts, projects, now>>
apiVars == <<INLINE_WORKER_ENABLED, api, worker_thread, thread_state,
             worker_stop, stop_set>>
renderVars == <<scenes, index>>

\* ---------------------------------------------------------------- tables
\* _update_job: setattr for every field, session.add, session.commit
MergeFields(row, fields) ==
    [k \in DOMAIN row |-> IF k \in DOMAIN fields THEN fields[k] ELSE row[k]]

\* an update addressed by the job's project instead of its id
update_project_jobs(jid, fields) ==
    [j \in DOMAIN jobs |->
        IF jobs[j].project_id = jobs[jid].project_id
        THEN MergeFields(jobs[j], fields) ELSE jobs[j]]

update_job(jid, fields) == [jobs EXCEPT ![jid] = MergeFields(@, fields)]

\* session.commit(): the job's new fields and the session's pending rows reach
\* the tables together, or (the commit raises) none of them does and the
\* session drops what was pending
Commit(w, fields, ok) ==
    IF ok
    THEN /\ jobs' = update_job(job[w], fields)
         /\ artifacts' = artifacts \o pending[w]
         /\ pending' = [pending EXCEPT ![w] = <<>>]
    ELSE /\ UNCHANGED <<jobs, artifacts>>
         /\ pending' = [pending EXCEPT ![w] = <<>>]

Queued == {j \in DOMAIN jobs : jobs[j].status = "QUEUED"}

\* the select ordered by created_at descending
NewestQueued ==
    IF Queued = {} THEN NoJob
    ELSE CHOOSE j \in Queued :
            \A k \in Queued : jobs[j].created_at >= jobs[k].created_at

\* the select over every row that has not succeeded
OldestNotSucceeded ==
    LET open == {j \in DOMAIN jobs : jobs[j].status # "SUCCEEDED"}
    IN IF open = {} THEN NoJob
       ELSE CHOOSE j \in open :
               \A k \in open : jobs[j].created_at <= jobs[k].created_at

\* select(Job).where(Job.status == "QUEUED").order_by(Job.created_at).first()
OldestQueued ==
    IF Queued = {} THEN NoJob
    ELSE CHOOSE j \in Queued :
            \A k \in Queued : jobs[j].created_at <= jobs[k].created_at

\* a RUNNING update that leaves the stage as it was
RunningFieldsNoStage ==
    [status |-> "RUNNING", progress |-> 2 * Hundredth]

\* worker.py:59
RunningFields ==
    [status |-> "RUNNING", stage |-> Stage("VALIDATE"),
     progress |-> 2 * Hundredth]

\* a progress callback that persists the reported value as it is
UnclampedProgress(unit, value) == value

\* min(1.0, value), with 1.0 represented by unit
ClampedProgress(unit, value) == Min(unit, value)

\* progress(stage, value): _update_job(stage=stage, progress=min(1.0, value))
ProgressFields(stage, value) ==
    [stage |-> stage, progress |-> ClampedProgress(ProgressUnit, value)]

SucceededFields ==
    [status |-> "SUCCEEDED", stage |-> Stage("FINALIZE"),
     progress |-> ProgressUnit]

\* the except clause recording the error without the status
FailedFieldsNoStatus(e) ==
    [stage |-> Stage("ERROR"), progress |-> ProgressUnit,
     error |-> Truncate(e)]

FailedFields(e) ==
    [status |-> "FAILED", stage |-> Stage("ERROR"),
     progress |-> ProgressUnit, error |-> Truncate(e)]

\* the checkpoint values render_project reports
\* (h is one hundredth of the progress range)
ValidateValueAt(h) == 5 * h
AudioPrepValueAt(h, i) == 10 * h + i * 2 * h
SceneBuildValueAt(h, i, n) ==
    20 * h + (i * 60 * h) \div (IF n >= 1 THEN n ELSE 1)
ConcatValueAt(h) == 90 * h
FinalizeValueAt(h) == 98 * h

ValidateValue == ValidateValueAt(Hundredth)
AudioPrepValue(i) == AudioPrepValueAt(Hundredth, i)
SceneBuildValue(i, n) == SceneBuildValueAt(Hundredth, i, n)
ConcatValue == ConcatValueAt(Hundredth)
FinalizeValue == FinalizeValueAt(Hundredth)

\* ------------------------------------------------------------------- Init
\* the variables of the other specifications, at rest
MeterIdle == [pc |-> "idle", n |-> 0, i |-> 0, progress |-> 0]
None == "None"
PipeIdle ==
    /\ rp_pc = "idle"
    /\ opts = None
    /\ video_meta = None
    /\ environ = None
    /\ scene_count = 0
    /\ scene_index = 0
    /\ scene = None
    /\ tts_api = None
    /\ tts_voice = None
    /\ img_index = 0
    /\ scene_files = << >>
    /\ reported = << >>
    /\ events = << >>
    /\ outcome = None
    /\ final = [output_name |-> None, concat_inputs |-> << >>,
                final_path |-> None, written |-> None, returned |-> None]

AllocIdle ==
    [pc |-> "idle", images |-> << >>, timeline |-> << >>, duration |-> 0,
     audio_duration |-> 0, fps |-> 0, min_shot |-> 0, max_shot |-> 0,
     timeline_durations |-> << >>, per_image_durations |-> << >>,
     frames |-> << >>, segments |-> << >>]

SynthIdle ==
    [pc |-> "idle", fn |-> None, sdk |-> FALSE, key |-> FALSE,
     region |-> FALSE, retries |-> 0, backoff |-> 0, attempt |-> 0,
     sleeps |-> 0, delays |-> << >>,
     errors |-> << >>, api_url |-> None, env_url |-> None,
     resolved_url |-> None, posts |-> 0,
     error |-> [kind |-> None, attempt |-> 0]]
AnchorIdle ==
    [pc |-> "idle", given |-> FALSE, parts |-> << >>, sep |-> "-",
     tokens |-> << >>, x_expr |-> None, y_expr |-> None]
SettingsIdle ==
    [pc |-> "idle",
     opts |-> [ttsApi |-> None, tts_api |-> None, tts |-> None,
               ttsLanguage |-> None, fps |-> 0, minShot |-> 0, maxShot |-> 0,
               crf |-> 0, preset |-> None],
     video_meta |-> [api |-> None, tts_api |-> None, voice |-> None,
                     language |-> None, lang |-> None],
     environ |-> [DEFAULT_TTS_API |-> None, XTTS_VOICE |-> None,
                  DEFAULT_TTS_VOICE |-> None, AZURE_TTS_VOICE |-> None,
                  XTTS_LANGUAGE |-> None, DEFAULT_TTS_LANGUAGE |-> None,
                  DEFAULT_FPS |-> None],
     fps |-> 0, min_shot |-> 0, max_shot |-> 0, crf |-> None, preset |-> None,
     tts_api |-> None, tts_voice |-> None, tts_language |-> None,
     logs |-> << >>,
     synth_call |-> [provider |-> None, voice |-> None, language |-> None]]
NoDir == [root |-> None, name |-> None]
StoreIdle ==
    [pc |-> "idle", RENDER_STORAGE |-> None, writable |-> {},
     meta |-> [state |-> "absent", directory |-> None], legacy |-> FALSE,
     ROOT |-> None, STORAGE_ROOT |-> None, files |-> {},
     api_dir |-> NoDir, worker_dir |-> NoDir, found |-> FALSE]
FnIdle ==
    /\ synth = SynthIdle
    /\ anchor = AnchorIdle
    /\ settings = SettingsIdle
    /\ store = StoreIdle

AuxIdle ==
    /\ meter = MeterIdle
    /\ PipeIdle
    /\ alloc = AllocIdle
    /\ FnIdle

\* the worker and the API, not started
CoreIdle ==
    /\ jobs = << >>
    /\ artifacts = << >>
    /\ projects = << >>
    /\ now = 0
    /\ pc = [w \in Procs |-> "off"]
    /\ job = [w \in Procs |-> NoJob]
    /\ exc = [w \in Procs |-> NoError]
    /\ raising = [w \in Procs |-> FALSE]
    /\ log_open = [w \in Procs |-> FALSE]
    /\ pending = [w \in Procs |-> << >>]
    /\ scenes = [w \in Procs |-> 0]
    /\ index = [w \in Procs |-> 0]
    /\ started = << >>
    /\ invoked = << >>
    /\ INLINE_WORKER_ENABLED = FALSE
    /\ api = "init"
    /\ worker_thread = "None"
    /\ thread_state = "unstarted"
    /\ worker_stop = "None"
    /\ stop_set = FALSE

Init ==
    /\ jobs = << >>
    /\ artifacts = << >>
    /\ projects = << >>
    /\ now = 0
    /\ pc = [w \in Procs |-> IF w = "main" THEN "select" ELSE "off"]
    /\ job = [w \in Procs |-> NoJob]
    /\ exc = [w \in Procs |-> NoError]
    /\ raising = [w \in Procs |-> FALSE]
    /\ log_open = [w \in Procs |-> FALSE]
    /\ pending = [w \in Procs |-> << >>]
    /\ scenes = [w \in Procs |-> 0]
    /\ index = [w \in Procs |-> 0]
    /\ started = << >>
    /\ invoked = << >>
    /\ INLINE_WORKER_ENABLED \in BOOLEAN
    /\ api = "init"
    /\ worker_thread = "None"
    /\ thread_state = "unstarted"
    /\ worker_stop = "None"
    /\ stop_set = FALSE
    /\ AuxIdle

\* -------------------------------------------------------------------- API
\* the parameters worker.loop declares, and the keywords _runner passes
loop_parameters == {}
runner_keywords == {"stop_event"}

\* _startup: init_db(); _start_inline_worker()
Startup ==
    /\ api = "init"
    /\ api' = "serving"
    /\ IF INLINE_WORKER_ENABLED
          /\ ~(worker_thread = "Thread" /\ thread_state = "running")
       THEN /\ worker_stop' = "Event"
            /\ worker_thread' = "Thread"
            /\ thread_state' = "running"
       ELSE UNCHANGED <<worker_stop, worker_thread, thread_state>>
    /\ UNCHANGED <<dbVars, pc, job, exc, raising, log_open, pending,
                   renderVars, started, invoked, INLINE_WORKER_ENABLED,
                   stop_set>>
    /\ UNCHANGED auxVars

\* _runner: worker_loop(stop_event=_worker_stop); a keyword the callee does
\* not declare is a TypeError, which _runner logs before the thread exits
Runner ==
    /\ thread_state = "running"
    /\ pc["inline"] = "off"
    /\ IF runner_keywords \subseteq loop_parameters
       THEN /\ pc' = [pc EXCEPT !["inline"] = "select"]
            /\ thread_state' = "looping"
       ELSE /\ thread_state' = "crashed"
            /\ UNCHANGED pc
    /\ UNCHANGED <<dbVars, job, exc, raising, log_open, pending, renderVars,
                   started, invoked, INLINE_WORKER_ENABLED, api, worker_thread,
                   worker_stop, stop_set>>
    /\ UNCHANGED auxVars

\* _shutdown: set the stop event, join the thread for 5 s, clear the globals
Shutdown ==
    /\ api = "serving"
    /\ api' = "stopped"
    /\ stop_set' = (stop_set \/ worker_stop # "None")
    /\ worker_thread' = "None"
    /\ worker_stop' = "None"
    /\ UNCHANGED <<dbVars, pc, job, exc, raising, log_open, pending,
                   renderVars, started, invoked, INLINE_WORKER_ENABLED,
                   thread_state>>
    /\ UNCHANGED auxVars

\* POST /v1/projects/{pid}/render
render(pid, outputName) ==
    /\ api = "serving"
    /\ Len(jobs) < MaxJobs
    /\ projects' = [p \in DOMAIN projects \cup {pid} |->
                       IF p = pid THEN [last_output_name |-> outputName]
                       ELSE projects[p]]
    /\ jobs' = Append(jobs,
                 [project_id |-> pid,
                  status |-> "QUEUED",
                  payload |-> [outputName |-> outputName],
                  progress |-> 0,
                  stage |-> Stage("QUEUED"),
                  error |-> NoError,
                  created_at |-> now])
    /\ now' = now + 1
    /\ UNCHANGED <<artifacts, pc, job, exc, raising, log_open, pending,
                   renderVars, started, invoked, apiVars>>
    /\ UNCHANGED auxVars

\* PUT /v1/projects/{pid}/scenes (api.py:109-125): scenes.json is written and
\* the project row is created when there is none
upsert_scenes(pid) ==
    /\ api = "serving"
    /\ projects' = [p \in DOMAIN projects \cup {pid} |->
                       IF p \in DOMAIN projects THEN projects[p]
                       ELSE [last_output_name |-> None]]
    /\ UNCHANGED <<jobs, artifacts, now, pc, job, exc, raising, log_open,
                   pending, renderVars, started, invoked, apiVars>>
    /\ UNCHANGED auxVars

\* GET /v1/jobs/{job_id} (api.py:193-210): the row is read
job_status(jid) ==
    /\ api = "serving"
    /\ jid \in DOMAIN jobs
    /\ UNCHANGED vars

\* ----------------------------------------------------------------- worker
Goto(w, label) == pc' = [pc EXCEPT ![w] = label]

\* an exception raised inside the try block of loop(): control passes to the
\* except clause with exc bound to it
Raise(w, e) ==
    /\ exc' = [exc EXCEPT ![w] = e]
    /\ Goto(w, "log_failed")

\* an exception raised inside the except clause: it propagates through the
\* finally block and out of loop()
Propagate(w) ==
    /\ raising' = [raising EXCEPT ![w] = TRUE]
    /\ Goto(w, "finally")

\* worker.py:46-56, no QUEUED row: time.sleep(POLL_INTERVAL); continue
Idle(w) ==
    /\ pc[w] = "select"
    /\ OldestQueued = NoJob
    /\ UNCHANGED vars

\* worker.py:46-58, the oldest QUEUED row is bound to job
Select(w) ==
    /\ pc[w] = "select"
    /\ OldestQueued # NoJob
    /\ job' = [job EXCEPT ![w] = OldestQueued]
    /\ Goto(w, "mark")
    /\ UNCHANGED <<dbVars, exc, raising, log_open, pending, renderVars,
                   started, invoked, apiVars>>
    /\ UNCHANGED auxVars

\* a claim of the job that re-checks the row: the update is applied only while
\* the row is still QUEUED, and a worker that lost the race selects again
MarkRunningIfQueued(w) ==
    /\ pc[w] = "mark"
    /\ IF jobs[job[w]].status = "QUEUED"
       THEN \E ok \in BOOLEAN :
               /\ Commit(w, RunningFields, ok)
               /\ IF ok
                  THEN /\ started' = Append(started, job[w])
                       /\ Goto(w, "open_log")
                  ELSE /\ UNCHANGED started
                       /\ Goto(w, "dead")
       ELSE /\ Goto(w, "select")
            /\ UNCHANGED <<jobs, artifacts, pending, started>>
    /\ UNCHANGED <<projects, now, job, exc, raising, log_open, renderVars,
                   invoked, apiVars>>
    /\ UNCHANGED auxVars

\* worker.py:59; a commit that raises here is outside the try block
MarkRunning(w) ==
    /\ pc[w] = "mark"
    /\ \E ok \in BOOLEAN :
        /\ Commit(w, RunningFields, ok)
        /\ IF ok
           THEN /\ started' = Append(started, job[w])
                /\ Goto(w, "open_log")
           ELSE /\ UNCHANGED started
                /\ Goto(w, "dead")
    /\ UNCHANGED <<projects, now, job, exc, raising, log_open, renderVars,
                   invoked, apiVars>>
    /\ UNCHANGED auxVars

\* worker.py:64 and 25-34; path.open may raise, outside the try block
open_log(w) ==
    /\ pc[w] = "open_log"
    /\ \E ok \in BOOLEAN :
        IF ok
        THEN /\ log_open' = [log_open EXCEPT ![w] = TRUE]
             /\ Goto(w, "start_log")
        ELSE /\ UNCHANGED log_open
             /\ Goto(w, "dead")
    /\ UNCHANGED <<dbVars, job, exc, raising, pending, renderVars, started,
                   invoked,
                   apiVars>>
    /\ UNCHANGED auxVars

\* worker.py:65; log("Starting job ..."), outside the try block; when the
\* write returns, render_project is called (worker.py:70-78)
LogStarting(w) ==
    /\ pc[w] = "start_log"
    /\ \E ok \in BOOLEAN :
        IF ok
        THEN /\ invoked' = Append(invoked, job[w])
             /\ Goto(w, "r_load")
        ELSE /\ UNCHANGED invoked
             /\ Goto(w, "dead")
    /\ UNCHANGED <<dbVars, job, exc, raising, log_open, pending, renderVars,
                   started, apiVars>>
    /\ UNCHANGED auxVars

\* ------------------------------------------------- render_project, by step
\* a step of render_project that touches no table: it returns, or raises one
\* of `failures`
RenderStep(w, failures, next) ==
    /\ \/ \E k \in failures : \E n \in MsgLens(k) : Raise(w, Exc(k, n))
       \/ /\ Goto(w, next)
          /\ UNCHANGED exc
    /\ UNCHANGED <<dbVars, job, raising, log_open, pending, started, invoked,
                   apiVars>>

\* update(stage, value) -> progress(stage, value): one commit, which may raise
Report(w, stage, value, next) ==
    /\ \E ok \in BOOLEAN :
        /\ Commit(w, ProgressFields(stage, value), ok)
        /\ IF ok
           THEN /\ Goto(w, next)
                /\ UNCHANGED exc
           ELSE Raise(w, Exc("CommitError", ShortLen))
    /\ UNCHANGED <<projects, now, job, raising, log_open, renderVars,
                   started, invoked, apiVars>>

\* renderer.py:367-438: the scenes file is read and the options resolved
RenderLoad(w) ==
    /\ pc[w] = "r_load"
    /\ \/ /\ \E k \in {"ScenesFileMissing", "NoScenes", "FontNotFound",
                       "LogWriteError"} :
                \E n \in MsgLens(k) : Raise(w, Exc(k, n))
          /\ UNCHANGED renderVars
       \/ /\ \E n \in 1..MaxScenes : scenes' = [scenes EXCEPT ![w] = n]
          /\ index' = [index EXCEPT ![w] = 0]
          /\ Goto(w, "r_validate")
          /\ UNCHANGED exc
    /\ UNCHANGED <<dbVars, job, raising, log_open, pending, started, invoked,
                   apiVars>>
    /\ UNCHANGED auxVars

\* renderer.py:440
ReportValidate(w) ==
    /\ pc[w] = "r_validate"
    /\ Report(w, Stage("VALIDATE"), ValidateValue, "r_scene")
    /\ UNCHANGED auxVars

\* renderer.py:444-461
SceneStart(w) ==
    /\ pc[w] = "r_scene"
    /\ RenderStep(w, {"SceneHasNoImages"}, "r_audio_prep")
    /\ UNCHANGED renderVars
    /\ UNCHANGED auxVars

\* renderer.py:462
ReportAudioPrep(w) ==
    /\ pc[w] = "r_audio_prep"
    /\ Report(w, Stage("AUDIO_PREP"), AudioPrepValue(index[w]), "r_audio")
    /\ UNCHANGED auxVars

\* renderer.py:463-526: narration file, TTS or silence
ResolveAudio(w) ==
    /\ pc[w] = "r_audio"
    /\ RenderStep(w, {"TTSConfigurationError", "SynthesisFailed",
                      "CommandFailed", "LogWriteError"}, "r_segments")
    /\ UNCHANGED renderVars
    /\ UNCHANGED auxVars

\* renderer.py:527-613: durations, then one segment per image
BuildSegments(w) ==
    /\ pc[w] = "r_segments"
    /\ RenderStep(w, {"MissingImage", "CommandFailed", "LogWriteError"},
                  "r_scene_build")
    /\ UNCHANGED renderVars
    /\ UNCHANGED auxVars

\* renderer.py:615
ReportSceneBuild(w) ==
    /\ pc[w] = "r_scene_build"
    /\ Report(w, SceneBuildStage(index[w]),
              SceneBuildValue(index[w], scenes[w]), "r_assemble")
    /\ UNCHANGED auxVars

\* renderer.py:616-736, then the next scene of the for loop if there is one
AssembleScene(w) ==
    /\ pc[w] = "r_assemble"
    /\ LET last == index[w] + 1 >= scenes[w] IN
        /\ RenderStep(w, {"CommandFailed", "LogWriteError"},
                      IF last THEN "r_concat_report" ELSE "r_scene")
        /\ index' = IF pc'[w] = "r_scene"
                    THEN [index EXCEPT ![w] = @ + 1] ELSE index
    /\ UNCHANGED scenes
    /\ UNCHANGED auxVars

\* renderer.py:738
ReportConcat(w) ==
    /\ pc[w] = "r_concat_report"
    /\ Report(w, Stage("CONCAT"), ConcatValue, "r_concat")
    /\ UNCHANGED auxVars

\* renderer.py:739-775
FinalConcat(w) ==
    /\ pc[w] = "r_concat"
    /\ RenderStep(w, {"CommandFailed", "LogWriteError"}, "r_finalize")
    /\ UNCHANGED renderVars
    /\ UNCHANGED auxVars

\* renderer.py:777-778
ReportFinalize(w) ==
    /\ pc[w] = "r_finalize"
    /\ Report(w, Stage("FINALIZE"), FinalizeValue, "artifact")
    /\ UNCHANGED auxVars

\* --------------------------------------------- loop(), after render_project
\* worker.py:79-94; session.add(artifact)
AddArtifact(w) ==
    /\ pc[w] = "artifact"
    /\ pending' = [pending EXCEPT ![w] = Append(@,
            [project_id |-> jobs[job[w]].project_id,
             job_id |-> job[w],
             path |-> <<jobs[job[w]].project_id, "output",
                        jobs[job[w]].payload.outputName>>,
             kind |-> "video"])]
    /\ Goto(w, "commit_succeeded")
    /\ UNCHANGED <<dbVars, job, exc, raising, log_open, renderVars, started,
                   invoked,
                   apiVars>>
    /\ UNCHANGED auxVars

\* worker.py:95
CommitSucceeded(w) ==
    /\ pc[w] = "commit_succeeded"
    /\ \E ok \in BOOLEAN :
        /\ Commit(w, SucceededFields, ok)
        /\ IF ok
           THEN /\ Goto(w, "log_completed")
                /\ UNCHANGED exc
           ELSE Raise(w, Exc("CommitError", ShortLen))
    /\ UNCHANGED <<projects, now, job, raising, log_open, renderVars,
                   started, invoked, apiVars>>
    /\ UNCHANGED auxVars

\* worker.py:96; log("Job completed ...") is still inside the try block
LogCompleted(w) ==
    /\ pc[w] = "log_completed"
    /\ \/ Raise(w, Exc("LogWriteError", ShortLen))
       \/ /\ Goto(w, "finally")
          /\ UNCHANGED exc
    /\ UNCHANGED <<dbVars, job, raising, log_open, pending, renderVars,
                   started, invoked, apiVars>>
    /\ UNCHANGED auxVars

\* worker.py:98; log("Job failed")
LogFailed(w) ==
    /\ pc[w] = "log_failed"
    /\ \/ Propagate(w)
       \/ /\ Goto(w, "log_traceback")
          /\ UNCHANGED raising
    /\ UNCHANGED <<dbVars, job, exc, log_open, pending, renderVars, started,
                   invoked,
                   apiVars>>
    /\ UNCHANGED auxVars

\* worker.py:99; log(traceback.format_exc())
LogTraceback(w) ==
    /\ pc[w] = "log_traceback"
    /\ \/ Propagate(w)
       \/ /\ Goto(w, "commit_failed")
          /\ UNCHANGED raising
    /\ UNCHANGED <<dbVars, job, exc, log_open, pending, renderVars, started,
                   invoked,
                   apiVars>>
    /\ UNCHANGED auxVars

\* worker.py:100-107
CommitFailed(w) ==
    /\ pc[w] = "commit_failed"
    /\ \E ok \in BOOLEAN :
        /\ Commit(w, FailedFields(exc[w]), ok)
        /\ IF ok
           THEN /\ Goto(w, "finally")
                /\ UNCHANGED raising
           ELSE Propagate(w)
    /\ UNCHANGED <<projects, now, job, exc, log_open, renderVars, started,
                   invoked,
                   apiVars>>
    /\ UNCHANGED auxVars

\* worker.py:108-110; log_file.close(), then the next iteration, or the
\* propagating exception leaves loop()
Finally(w) ==
    /\ pc[w] = "finally"
    /\ log_open' = [log_open EXCEPT ![w] = FALSE]
    /\ IF raising[w]
       THEN /\ Goto(w, "dead")
            /\ UNCHANGED <<job, exc>>
       ELSE /\ Goto(w, "select")
            /\ job' = [job EXCEPT ![w] = NoJob]
            /\ exc' = [exc EXCEPT ![w] = NoError]
    /\ UNCHANGED <<dbVars, raising, pending, renderVars, started, invoked,
                   apiVars>>
    /\ UNCHANGED auxVars

\* ------------------------------------------------------------------- Next
Next ==
    \/ Startup
    \/ Runner
    \/ Shutdown
    \/ \E pid \in Pids, o \in OutputNames : render(pid, o)
    \/ \E pid \in Pids : upsert_scenes(pid)
    \/ \E jid \in 1..MaxJobs : job_status(jid)
    \/ \E w \in Procs : Idle(w)
    \/ \E w \in Procs : Select(w)
    \/ \E w \in Procs : MarkRunning(w)
    \/ \E w \in Procs : open_log(w)
    \/ \E w \in Procs : LogStarting(w)
    \/ \E w \in Procs : RenderLoad(w)
    \/ \E w \in Procs : ReportValidate(w)
    \/ \E w \in Procs : SceneStart(w)
    \/ \E w \in Procs : ReportAudioPrep(w)
    \/ \E w \in Procs : ResolveAudio(w)
    \/ \E w \in Procs : BuildSegments(w)
    \/ \E w \in Procs : ReportSceneBuild(w)
    \/ \E w \in Procs : AssembleScene(w)
    \/ \E w \in Procs : ReportConcat(w)
    \/ \E w \in Procs : FinalConcat(w)
    \/ \E w \in Procs : ReportFinalize(w)
    \/ \E w \in Procs : AddArtifact(w)
    \/ \E w \in Procs : CommitSucceeded(w)
    \/ \E w \in Procs : LogCompleted(w)
    \/ \E w \in Procs : LogFailed(w)
    \/ \E w \in Procs : LogTraceback(w)
    \/ \E w \in Procs : CommitFailed(w)
    \/ \E w \in Procs : Finally(w)

Spec == Init /\ [][Next]_vars

\* the steps of the worker processes: a worker that can take a step of
\* loop() takes it, since the process is scheduled and every call it makes
\* returns or raises
WorkerNext ==
    \E w \in Procs :
       \/ Select(w) \/ MarkRunning(w) \/ open_log(w) \/ LogStarting(w)
       \/ RenderLoad(w) \/ ReportValidate(w) \/ SceneStart(w)
       \/ ReportAudioPrep(w) \/ ResolveAudio(w) \/ BuildSegments(w)
       \/ ReportSceneBuild(w) \/ AssembleScene(w) \/ ReportConcat(w)
       \/ FinalConcat(w) \/ ReportFinalize(w) \/ AddArtifact(w)
       \/ CommitSucceeded(w) \/ LogCompleted(w) \/ LogFailed(w)
       \/ LogTraceback(w) \/ CommitFailed(w) \/ Finally(w)

SpecLive == Spec /\ WF_vars(WorkerNext)

\* two worker processes against the same job table, one job already
\* enqueued by POST /render (api.py:154-180); the API is not running
QueuedRow(pid, outputName, at) ==
    [project_id |-> pid,
     status |-> "QUEUED",
     payload |-> [outputName |-> outputName],
     progress |-> 0,
     stage |-> Stage("QUEUED"),
     error |-> NoError,
     created_at |-> at]

InitTwoWorkers ==
    /\ jobs = <<QueuedRow("p1", "video.mp4", 0)>>
    /\ artifacts = << >>
    /\ projects = [p \in {"p1"} |-> [last_output_name |-> "video.mp4"]]
    /\ now = 1
    /\ pc = [w \in Procs |-> IF w \in {"main", "second"} THEN "select" ELSE "off"]
    /\ job = [w \in Procs |-> NoJob]
    /\ exc = [w \in Procs |-> NoError]
    /\ raising = [w \in Procs |-> FALSE]
    /\ log_open = [w \in Procs |-> FALSE]
    /\ pending = [w \in Procs |-> << >>]
    /\ scenes = [w \in Procs |-> 0]
    /\ index = [w \in Procs |-> 0]
    /\ started = << >>
    /\ invoked = << >>
    /\ INLINE_WORKER_ENABLED = FALSE
    /\ api = "init"
    /\ worker_thread = "None"
    /\ thread_state = "unstarted"
    /\ worker_stop = "None"
    /\ stop_set = FALSE
    /\ AuxIdle

NextTwoWorkers ==
    \/ \E w \in Procs : Idle(w)
    \/ \E w \in Procs : Select(w)
    \/ \E w \in Procs : MarkRunning(w)
    \/ \E w \in Procs : open_log(w)
    \/ \E w \in Procs : LogStarting(w)
    \/ \E w \in Procs : RenderLoad(w)
    \/ \E w \in Procs : ReportValidate(w)
    \/ \E w \in Procs : SceneStart(w)
    \/ \E w \in Procs : ReportAudioPrep(w)
    \/ \E w \in Procs : ResolveAudio(w)
    \/ \E w \in Procs : BuildSegments(w)
    \/ \E w \in Procs : ReportSceneBuild(w)
    \/ \E w \in Procs : AssembleScene(w)
    \/ \E w \in Procs : ReportConcat(w)
    \/ \E w \in Procs : FinalConcat(w)
    \/ \E w \in Procs : ReportFinalize(w)
    \/ \E w \in Procs : AddArtifact(w)
    \/ \E w \in Procs : CommitSucceeded(w)
    \/ \E w \in Procs : LogCompleted(w)
    \/ \E w \in Procs : LogFailed(w)
    \/ \E w \in Procs : LogTraceback(w)
    \/ \E w \in Procs : CommitFailed(w)
    \/ \E w \in Procs : Finally(w)

SpecTwoWorkers == InitTwoWorkers /\ [][NextTwoWorkers]_vars

\* ================================================================= claims
\* --------------------------------------------- one job's progress, by scenes
\* The progress one job shows from its insert to its terminal commit, for a
\* project of meter.n scenes.  1.0 is 100 * meter.n, so that every value the
\* pipeline reports is an exact integer.
MeterUnit == 100 * meter.n

MeterPersist(value, next) ==
    meter' = [meter EXCEPT !.progress = ClampedProgress(MeterUnit, value),
                           !.pc = next]

\* api.py:169-177 progress=0.0; scenes.json holds n scenes
InitProgress ==
    /\ CoreIdle
    /\ PipeIdle
    /\ alloc = AllocIdle
    /\ FnIdle
    /\ \E n \in 1..ManyScenes :
          meter = [pc |-> "queued", n |-> n, i |-> 0, progress |-> 0]

\* worker.py:59
MeterDequeue ==
    /\ meter.pc = "queued"
    /\ meter' = [meter EXCEPT !.progress = 2 * meter.n, !.pc = "validate"]
    /\ UNCHANGED notMeter

\* renderer.py:440 through worker.py:67-68
MeterValidate ==
    /\ meter.pc = "validate"
    /\ MeterPersist(ValidateValueAt(meter.n), "audio_prep")
    /\ UNCHANGED notMeter

\* renderer.py:462 through worker.py:67-68
MeterAudioPrep ==
    /\ meter.pc = "audio_prep"
    /\ MeterPersist(AudioPrepValueAt(meter.n, meter.i), "scene_build")
    /\ UNCHANGED notMeter

\* renderer.py:615 through worker.py:67-68
MeterSceneBuild ==
    /\ meter.pc = "scene_build"
    /\ MeterPersist(SceneBuildValueAt(meter.n, meter.i, meter.n), "next_scene")
    /\ UNCHANGED notMeter

\* renderer.py:444, the for loop over the scenes
MeterNextScene ==
    /\ meter.pc = "next_scene"
    /\ meter' = IF meter.i + 1 < meter.n
                THEN [meter EXCEPT !.i = @ + 1, !.pc = "audio_prep"]
                ELSE [meter EXCEPT !.pc = "concat"]
    /\ UNCHANGED notMeter

\* renderer.py:738 through worker.py:67-68
MeterConcat ==
    /\ meter.pc = "concat"
    /\ MeterPersist(ConcatValueAt(meter.n), "finalize")
    /\ UNCHANGED notMeter

\* renderer.py:777 through worker.py:67-68
MeterFinalize ==
    /\ meter.pc = "finalize"
    /\ MeterPersist(FinalizeValueAt(meter.n), "succeed")
    /\ UNCHANGED notMeter

\* worker.py:95 progress=1.0
MeterSucceeded ==
    /\ meter.pc = "succeed"
    /\ meter' = [meter EXCEPT !.progress = MeterUnit, !.pc = "done"]
    /\ UNCHANGED notMeter

\* worker.py:100-107 progress=1.0, after a failure at any point of the render
MeterFailed ==
    /\ meter.pc \notin {"idle", "queued", "done"}
    /\ meter' = [meter EXCEPT !.progress = MeterUnit, !.pc = "done"]
    /\ UNCHANGED notMeter

NextProgress ==
    \/ MeterDequeue
    \/ MeterValidate
    \/ MeterAudioPrep
    \/ MeterSceneBuild
    \/ MeterNextScene
    \/ MeterConcat
    \/ MeterFinalize
    \/ MeterSucceeded
    \/ MeterFailed

SpecProgress == InitProgress /\ [][NextProgress]_vars

\* ------------------------------------------ render_project, call by call
\* One call of render_project (renderer.py:353-778).  A scene of scenes.json
\* is drawn when the for loop reaches it, and each of its fields when the code
\* reads it.  events records every callback, provider call and external
\* command of the current loop iteration (before the loop: since the call
\* began; after it: since the loop ended); reported and scene_files span the
\* whole call.

\* Python truthiness of an optional string, and `x or y`
Falsy(x) == x \in {None, ""}
Or(x, y) == IF Falsy(x) THEN y ELSE x

\* str.lower() on the provider names drawn below
Lower(x) ==
    CASE x = "AZURE" -> "azure"
      [] x = "XTTS" -> "xtts"
      [] OTHER -> x

\* str.strip() and len(str.split()) on the narration and title texts drawn
\* below: " " is a text of whitespace only
Strip(text) == IF text = " " THEN "" ELSE text
Words(text) ==
    CASE text = "Hello world" -> 2
      [] OTHER -> 0

\* "-" in str(voice)
HasDash(voice) ==
    voice \in {"en-US-AriaNeural", "en-US-JennyNeural", "en-US-GuyNeural",
               "en-US-AdamMultilingualNeural", "custom-voice"}

\* renderer.py:407-410
Sanitize(value) ==
    CASE value = "'en-US-JennyNeural'" -> "en-US-JennyNeural"
      [] OTHER -> value

\* renderer.py:24  os.getenv("DEFAULT_TTS_API", "xtts").lower()
DEFAULT_TTS_API(env) ==
    IF env.DEFAULT_TTS_API = None THEN "xtts" ELSE Lower(env.DEFAULT_TTS_API)
\* renderer.py:18
DEFAULT_TTS_VOICE(env) == Or(env.XTTS_VOICE, Or(env.DEFAULT_TTS_VOICE, "p263"))

\* renderer.py:396-403
LoweredTtsApi(o, v, env) ==
    LET raw == Or(o.ttsApi, Or(o.tts_api, Or(v.tts_api,
                  Or(v.api, DEFAULT_TTS_API(env)))))
    IN IF Falsy(raw) THEN DEFAULT_TTS_API(env) ELSE Lower(raw)

\* the providers render_project knows (renderer.py:404)
KnownApis == {"xtts", "azure"}

\* a fallback to the other provider
FallbackToAzure(provider) == IF provider \in KnownApis THEN provider ELSE "azure"

\* renderer.py:404-406
FallbackApi(provider) == IF provider \in KnownApis THEN provider ELSE "xtts"

ResolvedTtsApi(o, v, env) == FallbackApi(LoweredTtsApi(o, v, env))

\* renderer.py:413-416  tts_voice before the azure test
RequestedVoice(o, v, env, provider) ==
    Or(o.tts, Or(v.voice,
       IF provider = "azure" THEN Sanitize(env.AZURE_TTS_VOICE)
       ELSE DEFAULT_TTS_VOICE(env)))

\* the voice the caller or the script named, whatever the provider
CallerVoiceKept(o, v, env, provider) ==
    Or(o.tts, Or(v.voice,
       IF provider = "azure" THEN Sanitize(env.AZURE_TTS_VOICE)
       ELSE DEFAULT_TTS_VOICE(env)))

\* renderer.py:412-426
ResolvedTtsVoice(o, v, env, provider) ==
    LET azure_env_voice == Sanitize(env.AZURE_TTS_VOICE)
        tts_voice_default ==
            IF provider = "azure" THEN azure_env_voice ELSE DEFAULT_TTS_VOICE(env)
        voice == Or(o.tts, Or(v.voice, tts_voice_default))
        azure_fallback ==
            Or(azure_env_voice, Or(tts_voice_default, "en-US-AriaNeural"))
    IN IF provider = "azure" /\ (Falsy(voice) \/ ~HasDash(voice))
       THEN azure_fallback
       ELSE voice

\* the voice argument of the provider call (renderer.py:470 and 478)
ProviderVoice(provider, voice, env) ==
    IF provider = "azure"
    THEN (IF Falsy(voice) THEN None ELSE voice)
    ELSE Or(voice, DEFAULT_TTS_VOICE(env))

\* renderer.py:330-332, in milliseconds
estimate_seconds(text) ==
    LET words == IF Words(Strip(text)) >= 1 THEN Words(Strip(text)) ELSE 1
        spoken == (words * 60000) \div 165
    IN IF spoken >= 5000 THEN spoken ELSE 5000

\* the inputs drawn for one call
OptsChoices ==
    [ttsApi : {None, "xtts", "azure", "AZURE", "bogus"},
     tts_api : {None},
     tts : {None, "narrator"},
     voiceDir : {None, "voice"}]
MetaChoices ==
    [api : {None, "azure", "polly"}, tts_api : {None}, voice : {None}]
EnvChoices ==
    [DEFAULT_TTS_API : {None}, XTTS_VOICE : {None},
     DEFAULT_TTS_VOICE : {None},
     AZURE_TTS_VOICE : {None, "'en-US-JennyNeural'"}]
VoChoices == {"", " ", "Hello world"}
TitleChoices == {"", " ", "Intro"}

NoScene == 0 - 1
NoImage == 0 - 1
Ev(e, what, at, img, voice, ms) ==
    [e |-> e, what |-> what, scene |-> at, img |-> img,
     voice |-> voice, ms |-> ms]
UpdateEv(stage, at) == Ev("update", stage, at, NoImage, None, 0)
RunEv(what, at, img, ms) == Ev("run", what, at, img, None, ms)
ProbeEv(what, at, img) == Ev("probe", what, at, img, None, 0)
TtsEv(provider, at, voice) == Ev("tts", provider, at, NoImage, voice, 0)
LogEv(what) == Ev("log", what, NoScene, NoImage, None, 0)
ProviderRaisedEv(what, at) == Ev("provider_raised", what, at, NoImage, None, 0)
RaiseEv(kind, at) == Ev("raise", kind, at, NoImage, None, 0)
\* process.returncode != 0
ExitEv(what, at, img) == Ev("exit_nonzero", what, at, img, None, 0)

Running == [kind |-> "running", scene |-> NoScene]
Returned == [kind |-> "returned", scene |-> NoScene]
Raised(kind, at) == [kind |-> kind, scene |-> at]

\* a scene none of whose fields has been read
Unread == [images |-> 0, VO |-> None, voice_path |-> None, title |-> None]

\* the statement completes after the calls evs
Step(evs, next) ==
    /\ events' = events \o evs
    /\ rp_pc' = next
    /\ outcome' = IF next = "returned" THEN Returned ELSE outcome

\* the statement raises after the calls evs; the exception leaves
\* render_project
Fail(evs, kind, at) ==
    /\ events' = (events \o evs) \o <<RaiseEv(kind, at)>>
    /\ rp_pc' = "raised"
    /\ outcome' = Raised(kind, at)

\* a command that exits non-zero is issued a second time
RunRetried(what, at, img, ms, next) ==
    \/ Fail(<<RunEv(what, at, img, ms), ExitEv(what, at, img),
              RunEv(what, at, img, ms), ExitEv(what, at, img)>>,
            "CommandFailed", at)
    \/ Step(<<RunEv(what, at, img, ms), ExitEv(what, at, img),
              RunEv(what, at, img, ms)>>, next)
    \/ Step(<<RunEv(what, at, img, ms)>>, next)

\* run(cmd, log), renderer.py:296-309: a non-zero exit raises
\* RuntimeError("Command failed: ...").  (The log callback's own failures are
\* followed in the worker's specification, as LogWriteError.)
Run(what, at, img, ms, next) ==
    \/ Fail(<<RunEv(what, at, img, ms), ExitEv(what, at, img)>>,
            "CommandFailed", at)
    \/ Step(<<RunEv(what, at, img, ms)>>, next)

\* update(stage, value), renderer.py:363-365: the callback returns or raises
Update(stage, at, next) ==
    /\ reported' = Append(reported, [stage |-> stage, scene |-> at])
    /\ \/ Step(<<UpdateEv(stage, at)>>, next)
       \/ Fail(<<UpdateEv(stage, at)>>, "CallbackError", at)

\* a provider failure answered with a silent track
SynthesizeOrSilence(call, at, text, next) ==
    \/ Step(<<call>>, next)
    \/ Fail(<<call, ProviderRaisedEv("TTSConfigurationError", at)>>,
            "TTSConfigurationError", NoScene)
    \/ Step(<<call, ProviderRaisedEv("Exception", at),
              RunEv("silence", at, NoImage, estimate_seconds(text))>>, next)

\* renderer.py:465-488: the provider call returns, or raises
\* TTSConfigurationError, which is re-raised as it is, or raises anything
\* else, which is wrapped in RuntimeError("... synthesis failed for scene
\* {idx}: ...")
Synthesize(call, at, text, next) ==
    \/ Step(<<call>>, next)
    \/ Fail(<<call, ProviderRaisedEv("TTSConfigurationError", at)>>,
            "TTSConfigurationError", NoScene)
    \/ Fail(<<call, ProviderRaisedEv("Exception", at)>>,
            "SynthesisFailed", at)

\* narration text takes priority over a narration file
AudioSourceTextFirst(sc) ==
    IF Strip(sc.VO) # "" THEN "tts"
    ELSE IF sc.voice_path # None THEN "file"
    ELSE "silence"

\* renderer.py:463-464 and 510: the narration file if there is one, else the
\* provider if the text has anything but whitespace, else silence
AudioSource(sc) ==
    IF sc.voice_path # None THEN "file"
    ELSE IF Strip(sc.VO) # "" THEN "tts"
    ELSE "silence"

\* every selection is served by synthesize_xtts
AlwaysXtts(selected) == "xtts"

\* renderer.py:466-481: synthesize_azure for "azure", else synthesize_xtts
ProviderFor(selected) == IF selected = "azure" THEN "azure" ELSE "xtts"

\* the argument output_name: the payload's outputName, "video.mp4" when the
\* payload has none (worker.py:62)
OutputNameChoices == {"video.mp4", "out.mp4"}

cfgVars == <<opts, video_meta, environ>>
ttsVars == <<tts_api, tts_voice>>
loopVars == <<scene_count, scene_index, scene>>

InitRender ==
    /\ CoreIdle
    /\ meter = MeterIdle
    /\ alloc = AllocIdle
    /\ FnIdle
    /\ rp_pc = "load"
    /\ opts \in OptsChoices
    /\ video_meta \in MetaChoices
    /\ environ \in EnvChoices
    /\ scene_count = 0
    /\ scene_index = 0
    /\ scene = Unread
    /\ tts_api = None
    /\ tts_voice = None
    /\ img_index = 0
    /\ scene_files = << >>
    /\ reported = << >>
    /\ events = << >>
    /\ outcome = Running
    /\ \E output_name \in OutputNameChoices :
          final = [output_name |-> output_name, concat_inputs |-> << >>,
                   final_path |-> None, written |-> None, returned |-> None]

\* scenes.json read after the VALIDATE checkpoint is reported
RpLoadAfterValidate ==
    /\ rp_pc = "load"
    /\ reported' = Append(reported, [stage |-> "VALIDATE", scene |-> NoScene])
    /\ \/ /\ Fail(<<UpdateEv("VALIDATE", NoScene)>>, "ScenesFileMissing",
                  NoScene)
          /\ UNCHANGED scene_count
       \/ /\ Fail(<<UpdateEv("VALIDATE", NoScene)>>, "NoScenes", NoScene)
          /\ UNCHANGED scene_count
       \/ /\ \E n \in 1..PipeScenes : scene_count' = n
          /\ Step(<<UpdateEv("VALIDATE", NoScene)>>, "options")
    /\ UNCHANGED <<notPipe, cfgVars, final, scene_index, scene, ttsVars,
                   img_index, scene_files>>

\* renderer.py:367-382
RpLoad ==
    /\ rp_pc = "load"
    /\ \/ /\ Fail(<< >>, "ScenesFileMissing", NoScene)
          /\ UNCHANGED scene_count
       \/ /\ Fail(<< >>, "NoScenes", NoScene)
          /\ UNCHANGED scene_count
       \/ /\ \E n \in 1..PipeScenes : scene_count' = n
          /\ Step(<< >>, "options")
    /\ UNCHANGED <<notPipe, cfgVars, final, scene_index, scene, ttsVars, img_index,
                   scene_files, reported>>

\* renderer.py:384-438: the provider and the voice are resolved, an unknown
\* provider is logged, the title font is located.  (The other lines logged
\* here are followed in SpecSettings.)
RpOptions ==
    /\ rp_pc = "options"
    /\ LET lowered == LoweredTtsApi(opts, video_meta, environ)
           provider == FallbackApi(lowered)
           warning == IF lowered \in KnownApis THEN << >>
                      ELSE <<LogEv("Unknown TTS api")>>
       IN /\ tts_api' = provider
          /\ tts_voice' = ResolvedTtsVoice(opts, video_meta, environ, provider)
          /\ \/ Fail(warning, "FontNotFound", NoScene)
             \/ Step(warning, "validate")
    /\ UNCHANGED <<notPipe, cfgVars, final, loopVars, img_index, scene_files,
                   reported>>

\* renderer.py:440
RpValidate ==
    /\ rp_pc = "validate"
    /\ Update("VALIDATE", NoScene, "scene")
    /\ UNCHANGED <<notPipe, cfgVars, final, loopVars, ttsVars, img_index,
                   scene_files>>

\* renderer.py:444-459: the next iteration of the for loop; a scene without
\* images raises; voice_path is looked up only when voiceDir is set
RpScene ==
    /\ rp_pc = "scene"
    /\ scene_index' = Len(scene_files)
    /\ \/ /\ scene' = Unread
          /\ events' = <<RaiseEv("SceneHasNoImages", scene_index')>>
          /\ rp_pc' = "raised"
          /\ outcome' = Raised("SceneHasNoImages", scene_index')
       \/ /\ \E n \in 1..PipeImages, vo \in VoChoices,
                vp \in (IF Falsy(opts.voiceDir) THEN {None}
                        ELSE {None, "voice/00.wav"}) :
                scene' = [Unread EXCEPT !.images = n, !.VO = vo,
                                        !.voice_path = vp]
          /\ events' = << >>
          /\ rp_pc' = "audio_prep"
          /\ UNCHANGED outcome
    /\ UNCHANGED <<notPipe, cfgVars, final, scene_count, ttsVars, img_index,
                   scene_files, reported>>

\* renderer.py:462
RpAudioPrep ==
    /\ rp_pc = "audio_prep"
    /\ Update("AUDIO_PREP", scene_index, "audio")
    /\ UNCHANGED <<notPipe, cfgVars, final, loopVars, ttsVars, img_index,
                   scene_files>>

\* renderer.py:463-524: the narration file is converted, or the text is
\* synthesized by the selected provider, or silence is generated
RpAudio ==
    /\ rp_pc = "audio"
    /\ CASE AudioSource(scene) = "file" ->
              Run("normalize", scene_index, NoImage, 0, "probe_audio")
         [] AudioSource(scene) = "tts" ->
              Synthesize(TtsEv(ProviderFor(tts_api), scene_index,
                               ProviderVoice(tts_api, tts_voice, environ)),
                         scene_index, scene.VO, "probe_audio")
         [] OTHER ->
              Run("silence", scene_index, NoImage, estimate_seconds(scene.VO),
                  "probe_audio")
    /\ UNCHANGED <<notPipe, cfgVars, final, loopVars, ttsVars, img_index,
                   scene_files, reported>>

\* renderer.py:526 and 312-327: ffprobe on the scene's audio; check_output
\* raises on a non-zero exit
RpProbeAudio ==
    /\ rp_pc = "probe_audio"
    /\ \/ Step(<<ProbeEv("audio", scene_index, NoImage)>>, "segment")
       \/ Fail(<<ProbeEv("audio", scene_index, NoImage)>>, "ProbeFailed",
               scene_index)
    /\ img_index' = 0
    /\ UNCHANGED <<notPipe, cfgVars, final, loopVars, ttsVars, scene_files,
                   reported>>

\* renderer.py:553-613: one image of the scene: it must exist, then its
\* segment is encoded
RpSegment ==
    /\ rp_pc = "segment"
    /\ \/ Fail(<< >>, "MissingImage", scene_index)
       \/ Run("segment", scene_index, img_index, 0,
              IF img_index + 1 < scene.images THEN "segment"
              ELSE "scene_build")
    /\ img_index' = IF rp_pc' = "raised" THEN img_index ELSE img_index + 1
    /\ UNCHANGED <<notPipe, cfgVars, final, loopVars, ttsVars, scene_files,
                   reported>>

\* renderer.py:615
RpSceneBuild ==
    /\ rp_pc = "scene_build"
    /\ Update("SCENE_BUILD", scene_index, "probe_segment")
    /\ img_index' = 0
    /\ UNCHANGED <<notPipe, cfgVars, final, loopVars, ttsVars, scene_files>>

\* renderer.py:619-633: ffprobe on each segment
RpProbeSegment ==
    /\ rp_pc = "probe_segment"
    /\ \/ Step(<<ProbeEv("segment", scene_index, img_index)>>,
               IF img_index + 1 < scene.images THEN "probe_segment"
               ELSE "concat_segments")
       \/ Fail(<<ProbeEv("segment", scene_index, img_index)>>, "ProbeFailed",
               scene_index)
    /\ img_index' = IF rp_pc' = "raised" THEN img_index ELSE img_index + 1
    /\ UNCHANGED <<notPipe, cfgVars, final, loopVars, ttsVars, scene_files,
                   reported>>

\* renderer.py:636-657
RpConcatSegments ==
    /\ rp_pc = "concat_segments"
    /\ Run("concat_segments", scene_index, NoImage, 0, "title")
    /\ UNCHANGED <<notPipe, cfgVars, final, loopVars, ttsVars, img_index,
                   scene_files, reported>>

\* renderer.py:660-715: the title overlay, for a scene with title text
RpTitle ==
    /\ rp_pc = "title"
    /\ \E title \in TitleChoices :
        /\ scene' = [scene EXCEPT !.title = title]
        /\ IF Strip(title) # ""
           THEN Run("title", scene_index, NoImage, 0, "mux")
           ELSE Step(<< >>, "mux")
    /\ UNCHANGED <<notPipe, cfgVars, final, scene_count, scene_index, ttsVars,
                   img_index, scene_files, reported>>

\* the for loop ends after its first iteration
AfterMuxOneScene(i, n) == "concat_report"

\* renderer.py:444 and 738: the next scene, or the end of the for loop
AfterMux(i, n) == IF i + 1 < n THEN "scene" ELSE "concat_report"

\* renderer.py:717-736: video and audio are muxed into the scene's clip, and
\* the clip is appended to scene_files
RpMux ==
    /\ rp_pc = "mux"
    /\ Run("mux", scene_index, NoImage, 0, AfterMux(scene_index, scene_count))
    /\ scene_files' = IF rp_pc' = "raised" THEN scene_files
                      ELSE Append(scene_files, scene_index)
    /\ UNCHANGED <<notPipe, cfgVars, final, loopVars, ttsVars, img_index, reported>>

\* renderer.py:738, after the for loop
RpConcatReport ==
    /\ rp_pc = "concat_report"
    /\ reported' = Append(reported, [stage |-> "CONCAT", scene |-> NoScene])
    /\ \/ /\ events' = <<UpdateEv("CONCAT", NoScene)>>
          /\ rp_pc' = "final_concat"
          /\ UNCHANGED outcome
       \/ /\ events' = <<UpdateEv("CONCAT", NoScene),
                         RaiseEv("CallbackError", NoScene)>>
          /\ rp_pc' = "raised"
          /\ outcome' = Raised("CallbackError", NoScene)
    /\ UNCHANGED <<notPipe, cfgVars, final, loopVars, ttsVars, img_index,
                   scene_files>>

\* the final concatenation reading the last clip only
LastClipOnly(files) == <<files[Len(files)]>>

\* renderer.py:740-742  an "-i" input for every clip of scene_files, in order
ConcatInputs(files) == files

\* renderer.py:739-775: the clips of scene_files are concatenated into
\* output_dir / output_name
RpFinalConcat ==
    /\ rp_pc = "final_concat"
    /\ Run("final_concat", NoScene, NoImage, 0, "finalize")
    /\ final' = [final EXCEPT
                    !.final_path = final.output_name,
                    !.concat_inputs = ConcatInputs(scene_files),
                    !.written = IF rp_pc' = "raised" THEN None
                                ELSE final.output_name]
    /\ UNCHANGED <<notPipe, cfgVars, loopVars, ttsVars, img_index,
                   scene_files, reported>>

\* renderer.py:777-778
RpFinalize ==
    /\ rp_pc = "finalize"
    /\ Update("FINALIZE", NoScene, "returned")
    /\ final' = [final EXCEPT
                    !.returned = IF rp_pc' = "raised" THEN None
                                 ELSE final.final_path]
    /\ UNCHANGED <<notPipe, cfgVars, loopVars, ttsVars, img_index,
                   scene_files>>

NextRender ==
    \/ RpLoad
    \/ RpOptions
    \/ RpValidate
    \/ RpScene
    \/ RpAudioPrep
    \/ RpAudio
    \/ RpProbeAudio
    \/ RpSegment
    \/ RpSceneBuild
    \/ RpProbeSegment
    \/ RpConcatSegments
    \/ RpTitle
    \/ RpMux
    \/ RpConcatReport
    \/ RpFinalConcat
    \/ RpFinalize

SpecRender == InitRender /\ [][NextRender]_vars

\* ------------------------------------------- duration allocation of a scene
\* One scene's per-image durations (renderer.py:526-547 and
\* _timeline_durations, 218-284).  Durations are exact multiples of a tick;
\* the durations, frame rates and image counts drawn below divide without
\* remainder.
Millis(n) == n * 6
Seconds(n) == Millis(1000 * n)

ImageNames == {"a.png", "b.png"}

\* a timeline entry: image is "" when the entry names none, numeric is
\* whether float(duration) succeeds
Entry(image, numeric, duration) ==
    [image |-> image, numeric |-> numeric, duration |-> duration]
TimelineEntries ==
    {Entry("", TRUE, Seconds(2)),
     Entry("a.png", FALSE, 0),
     Entry("a.png", TRUE, 0),
     Entry("a.png", TRUE, Millis(10)),
     Entry("a.png", TRUE, Seconds(2)),
     Entry("b.png", TRUE, Millis(10)),
     Entry("b.png", TRUE, Seconds(2))}

SeqsUpTo(S, n) == UNION {[1..k -> S] : k \in 0..n}

\* scene["duration"]: 0 when the scene gives none
SceneDurations == {0, Seconds(5)}
AudioDurations == {Seconds(1), Millis(2001), Seconds(5), Seconds(10)}
FpsChoices == {0, 24, 30}
ShotChoices == {Millis(2500), Seconds(8)}

Max(a, b) == IF a >= b THEN a ELSE b

RECURSIVE SumSeq(_)
SumSeq(s) == IF s = << >> THEN 0 ELSE Head(s) + SumSeq(Tail(s))

RemoveAt(s, k) == [i \in 1..(Len(s) - 1) |-> IF i < k THEN s[i] ELSE s[i + 1]]

\* renderer.py:227-251: the timeline is a non-empty list and every entry has
\* an image and a duration that is a number above 0
EntriesAccepted(timeline) ==
    /\ timeline # << >>
    /\ \A k \in 1..Len(timeline) :
          /\ timeline[k].image # ""
          /\ timeline[k].numeric
          /\ timeline[k].duration > 0

\* renderer.py:256  the first remaining entry for the image, 0 when none
MatchIndex(remaining, image) ==
    LET found == {k \in 1..Len(remaining) : remaining[k].image = image}
    IN IF found = {} THEN 0
       ELSE CHOOSE k \in found : \A other \in found : k <= other

\* renderer.py:253-265: each image takes the first remaining entry of its
\* name; an image without one, or entries left over, reject the timeline
RECURSIVE MatchImages(_, _, _)
MatchImages(images, remaining, ordered) ==
    IF images = << >>
    THEN [ok |-> remaining = << >>, ordered |-> ordered]
    ELSE LET k == MatchIndex(remaining, Head(images))
         IN IF k = 0
            THEN [ok |-> FALSE, ordered |-> << >>]
            ELSE MatchImages(Tail(images), RemoveAt(remaining, k),
                             Append(ordered, remaining[k].duration))

\* the durations left as the timeline gives them
StretchNothing(ordered, explicit_duration, audio_duration) == ordered

\* renderer.py:267-277: the last duration takes up the difference to the
\* target when the difference is above 1e-3
Stretch(ordered, explicit_duration, audio_duration) ==
    LET timeline_total == SumSeq(ordered)
        target_total ==
            Max(timeline_total, Max(explicit_duration, audio_duration))
        delta == target_total - timeline_total
    IN IF ordered # << >> /\ delta > Millis(1)
       THEN [ordered EXCEPT ![Len(ordered)] = @ + delta]
       ELSE ordered

\* renderer.py:279  1.0 / max(1, fps)
MinDuration(fps) == Seconds(1) \div Max(1, fps)

\* the durations returned without the one-frame floor
NoFloor(ordered, fps) == ordered

\* renderer.py:279-282
FloorToFrame(ordered, fps) ==
    [i \in 1..Len(ordered) |->
        IF ordered[i] < MinDuration(fps) THEN MinDuration(fps) ELSE ordered[i]]

\* renderer.py:218-284; << >> is the None it returns for a rejected timeline
TimelineDurations(timeline, explicit_duration, images, fps, audio_duration) ==
    IF ~EntriesAccepted(timeline) THEN << >>
    ELSE LET matched == MatchImages(images, timeline, << >>)
         IN IF ~matched.ok THEN << >>
            ELSE FloorToFrame(
                     Stretch(matched.ordered, explicit_duration,
                             audio_duration), fps)

\* the even share without the shot bounds
PerImageUnclamped(min_shot, max_shot, audio_duration, n) ==
    Max(Seconds(1), audio_duration - Millis(400)) \div Max(1, n)

\* renderer.py:543-546
PerImage(min_shot, max_shot, audio_duration, n) ==
    Max(min_shot,
        Min(max_shot,
            Max(Seconds(1), audio_duration - Millis(400)) \div Max(1, n)))

\* renderer.py:526: the scene's audio has been measured; the scene has at
\* least one image (renderer.py:447-448)
InitDurations ==
    /\ CoreIdle
    /\ meter = MeterIdle
    /\ PipeIdle
    /\ FnIdle
    /\ \E images \in SeqsUpTo(ImageNames, AllocImages) \ {<< >>},
          timeline \in SeqsUpTo(TimelineEntries, MaxTimeline),
          duration \in SceneDurations,
          audio_duration \in AudioDurations,
          fps \in FpsChoices,
          min_shot \in ShotChoices,
          max_shot \in ShotChoices :
          alloc = [pc |-> "probed", images |-> images,
                   timeline |-> timeline, duration |-> duration,
                   audio_duration |-> audio_duration, fps |-> fps,
                   min_shot |-> min_shot, max_shot |-> max_shot,
                   timeline_durations |-> << >>,
                   per_image_durations |-> << >>,
                   frames |-> << >>, segments |-> << >>]

\* renderer.py:527-534
AllocTimeline ==
    /\ alloc.pc = "probed"
    /\ alloc' = [alloc EXCEPT
                    !.pc = "timeline",
                    !.timeline_durations =
                        TimelineDurations(alloc.timeline, alloc.duration,
                                          alloc.images, alloc.fps,
                                          alloc.audio_duration)]
    /\ UNCHANGED notAlloc

\* renderer.py:535-541
AllocUseTimeline ==
    /\ alloc.pc = "timeline"
    /\ alloc.timeline_durations # << >>
    /\ alloc' = [alloc EXCEPT
                    !.pc = "timeline_used",
                    !.per_image_durations = alloc.timeline_durations]
    /\ UNCHANGED notAlloc

\* renderer.py:542-547
AllocEven ==
    /\ alloc.pc = "timeline"
    /\ alloc.timeline_durations = << >>
    /\ alloc' = [alloc EXCEPT
                    !.pc = "even_used",
                    !.per_image_durations =
                        [i \in 1..Len(alloc.images) |->
                            PerImage(alloc.min_shot, alloc.max_shot,
                                     alloc.audio_duration,
                                     Len(alloc.images))]]
    /\ UNCHANGED notAlloc

\* Python's round(): to the nearest integer, a tie to the even one
RoundHalfEven(num, den) ==
    LET q == num \div den
        r == num % den
    IN IF 2 * r > den THEN q + 1
       ELSE IF 2 * r < den THEN q
       ELSE IF q % 2 = 0 THEN q ELSE q + 1

\* renderer.py:557  frames = max(1, round(duration_seconds * fps))
Frames(duration_seconds, fps) ==
    Max(1, RoundHalfEven(duration_seconds * fps, Seconds(1)))

\* a zoom ramp written for every frame count: "1+0.05*(on/{frames - 1})"
ZoomAlwaysRamped(frames) == [constant |-> FALSE, zoom_steps |-> frames - 1]

\* renderer.py:560-566: the zoompan z expression, "1" or
\* "1+0.05*(on/{zoom_steps})"; zoom_steps is 0 where nothing is divided
ZoomExpr(frames) ==
    IF frames <= 1 THEN [constant |-> TRUE, zoom_steps |-> 0]
    ELSE [constant |-> FALSE, zoom_steps |-> frames - 1]

\* renderer.py:567-596: the arguments of the segment's ffmpeg call that carry
\* a frame count: zoompan's z and d, and -frames:v
SegmentCommand(frames, fps) ==
    [z |-> ZoomExpr(frames), d |-> frames, fps |-> fps, frames_v |-> frames]

\* renderer.py:553-596, for every image of the scene
AllocFrames ==
    /\ alloc.pc \in {"timeline_used", "even_used"}
    /\ alloc.frames = << >>
    /\ LET frames == [i \in 1..Len(alloc.per_image_durations) |->
                         Frames(alloc.per_image_durations[i], alloc.fps)]
       IN alloc' = [alloc EXCEPT
                       !.frames = frames,
                       !.segments = [i \in 1..Len(frames) |->
                                        SegmentCommand(frames[i], alloc.fps)]]
    /\ UNCHANGED notAlloc

NextDurations ==
    \/ AllocTimeline
    \/ AllocUseTimeline
    \/ AllocEven
    \/ AllocFrames

SpecDurations == InitDurations /\ [][NextDurations]_vars

\* ----------------------------------------------------- the TTS providers
\* One call of synthesize_azure or synthesize_xtts (tts.py).  key and region
\* say whether the argument or one of the environment variables gives a
\* value; every speak_text_async call and every HTTP request is an external
\* call whose outcome is drawn.
MaxRetries == 3

NoSynthError == [kind |-> None, attempt |-> 0]
SynthError(kind, attempt) == [kind |-> kind, attempt |-> attempt]

\* tts.py:55  the default endpoint
DefaultXttsUrl == "http://xtts:5002"
ApiUrlChoices == {None, "http://tts.example:5002"}
EnvUrlChoices == {None, "", "http://tts.internal:5002"}

\* the attempts the loop makes at most: range(1, max(1, retries) + 1)
Attempts(retries) == Max(1, retries)

\* tts.py:131  backoff, in seconds; 2 is the default
BackoffChoices == {1, 2, 3}

RECURSIVE Power(_, _)
Power(base, exponent) ==
    IF exponent = 0 THEN 1 ELSE base * Power(base, exponent - 1)

\* the same delay after every failed attempt
FixedDelay(backoff, attempt) == backoff

\* tts.py:215  backoff ** attempt
Delay(backoff, attempt) == Power(backoff, attempt)

\* the error of the first failed attempt
FirstErrorRaised(errors) == errors[1]

\* tts.py:196, 210 and 218: last_error is overwritten by every failed attempt
ErrorRaised(errors) == errors[Len(errors)]

SynthRaise(kind, attempt) ==
    [synth EXCEPT !.pc = "raised", !.error = SynthError(kind, attempt)]

InitSynth ==
    /\ CoreIdle
    /\ meter = MeterIdle
    /\ PipeIdle
    /\ alloc = AllocIdle
    /\ anchor = AnchorIdle
    /\ settings = SettingsIdle
    /\ store = StoreIdle
    /\ \/ \E sdk \in BOOLEAN, key \in BOOLEAN, region \in BOOLEAN,
             retries \in (0 - 1)..MaxRetries, backoff \in BackoffChoices :
             synth = [SynthIdle EXCEPT
                         !.pc = "import", !.fn = "synthesize_azure",
                         !.sdk = sdk, !.key = key, !.region = region,
                         !.retries = retries, !.backoff = backoff]
       \/ \E api_url \in ApiUrlChoices, env_url \in EnvUrlChoices :
             synth = [SynthIdle EXCEPT
                         !.pc = "resolve", !.fn = "synthesize_xtts",
                         !.api_url = api_url, !.env_url = env_url]

\* tts.py:135-140
AzImport ==
    /\ synth.pc = "import"
    /\ synth' = IF synth.sdk THEN [synth EXCEPT !.pc = "credentials"]
                ELSE SynthRaise("TTSConfigurationError", 0)
    /\ UNCHANGED notSynth

\* tts.py:142-185
AzCredentials ==
    /\ synth.pc = "credentials"
    /\ synth' = IF synth.key /\ synth.region
                THEN [synth EXCEPT !.pc = "attempt", !.attempt = 1]
                ELSE SynthRaise("TTSConfigurationError", 0)
    /\ UNCHANGED notSynth

\* tts.py:186-212: one speak_text_async(text).get(): synthesis completes, or
\* is canceled, or the call raises
AzAttempt ==
    /\ synth.pc = "attempt"
    /\ \/ synth' = [synth EXCEPT !.pc = "returned"]
       \/ \E kind \in {"Canceled", "Exception"} :
             synth' = [synth EXCEPT
                          !.pc = "failed",
                          !.errors = Append(@, SynthError(kind, synth.attempt))]
    /\ UNCHANGED notSynth

\* tts.py:214-218: the backoff sleep, then the next attempt, or last_error
\* is raised when the range is used up
AzBackoff ==
    /\ synth.pc = "failed"
    /\ LET sleeping == synth.attempt < synth.retries
           slept == IF sleeping THEN synth.sleeps + 1 ELSE synth.sleeps
           delays == IF sleeping
                     THEN Append(synth.delays,
                                 Delay(synth.backoff, synth.attempt))
                     ELSE synth.delays
       IN synth' = IF synth.attempt < Attempts(synth.retries)
                   THEN [synth EXCEPT !.pc = "attempt", !.attempt = @ + 1,
                                      !.sleeps = slept, !.delays = delays]
                   ELSE [synth EXCEPT !.pc = "raised", !.sleeps = slept,
                                      !.delays = delays,
                                      !.error = ErrorRaised(synth.errors)]
    /\ UNCHANGED notSynth

\* tts.py:55-57
XtResolve ==
    /\ synth.pc = "resolve"
    /\ LET resolved_url == Or(synth.api_url, Or(synth.env_url, DefaultXttsUrl))
       IN synth' = IF Falsy(resolved_url)
                   THEN SynthRaise("TTSConfigurationError", 0)
                   ELSE [synth EXCEPT !.pc = "post",
                                      !.resolved_url = resolved_url]
    /\ UNCHANGED notSynth

\* tts.py:82-118: one requests.post; the request fails, or the status is an
\* error, or the body has no audio, or the audio is written
XtPost ==
    /\ synth.pc = "post"
    /\ \/ synth' = [synth EXCEPT !.pc = "returned", !.posts = @ + 1]
       \/ \E kind \in {"RequestFailed", "HttpError", "MissingAudio"} :
             synth' = [SynthRaise(kind, 0) EXCEPT !.posts = @ + 1]
    /\ UNCHANGED notSynth

NextSynth ==
    \/ AzImport
    \/ AzCredentials
    \/ AzAttempt
    \/ AzBackoff
    \/ XtResolve
    \/ XtPost

SpecSynth == InitSynth /\ [][NextSynth]_vars
\* every statement of the call is executed in the end: the external calls
\* return and time.sleep(backoff ** attempt) ends
SpecSynthLive == SpecSynth /\ WF_vars(NextSynth)

\* ------------------------------------------------------ title coordinates
\* One call of _title_coordinates (renderer.py:141-176).  A position string is
\* its words joined by the separator sep; given is FALSE for None.
MaxWords == 2
PositionWords == {"top", "bottom", "middle", "center", "left", "right", "Top"}
Separators == {"-", "_"}

\* str.lower() on the words above
LowerWord(word) == IF word = "Top" THEN "top" ELSE word

\* renderer.py:150-156  strip().lower().replace("_", "-").split("-"): either
\* separator splits, and "" splits into the one token ""
Tokens(parts, sep) ==
    IF parts = << >> THEN <<"">>
    ELSE [k \in 1..Len(parts) |-> LowerWord(parts[k])]

\* next((tok for tok in tokens if tok in allowed), None)
FirstToken(tokens, allowed) ==
    LET found == {k \in 1..Len(tokens) : tokens[k] \in allowed}
    IN IF found = {} THEN None
       ELSE tokens[CHOOSE k \in found : \A other \in found : k <= other]

VerticalWords == {"top", "bottom", "middle", "center"}
HorizontalWords == {"left", "right", "middle", "center"}

\* renderer.py:142-145
margin_y == "h*0.08"
margin_x == "w*0.08"
default_x == "(w-text_w)/2"
default_y == margin_y

\* renderer.py:160-165
YExpr(vertical) ==
    CASE vertical \in {"middle", "center"} -> "(h-text_h)/2"
      [] vertical = "bottom" -> "h-text_h-h*0.08"
      [] OTHER -> default_y

\* renderer.py:167-174
XExpr(horizontal) ==
    CASE horizontal = "left" -> margin_x
      [] horizontal = "right" -> "w-text_w-w*0.08"
      [] OTHER -> default_x

InitAnchor ==
    /\ CoreIdle
    /\ meter = MeterIdle
    /\ PipeIdle
    /\ alloc = AllocIdle
    /\ synth = SynthIdle
    /\ settings = SettingsIdle
    /\ store = StoreIdle
    /\ \/ anchor = [AnchorIdle EXCEPT !.pc = "called"]
       \/ \E parts \in SeqsUpTo(PositionWords, MaxWords), sep \in Separators :
             anchor = [AnchorIdle EXCEPT !.pc = "called", !.given = TRUE,
                                         !.parts = parts, !.sep = sep]

\* renderer.py:147-156: None and "" return the defaults, anything else is
\* split into tokens
TcTokens ==
    /\ anchor.pc = "called"
    /\ anchor' = IF ~anchor.given \/ anchor.parts = << >>
                 THEN [anchor EXCEPT !.pc = "returned", !.x_expr = default_x,
                                     !.y_expr = default_y]
                 ELSE [anchor EXCEPT !.pc = "tokens",
                                     !.tokens = Tokens(anchor.parts, anchor.sep)]
    /\ UNCHANGED notAnchor

\* renderer.py:157-176
TcAnchors ==
    /\ anchor.pc = "tokens"
    /\ anchor' = [anchor EXCEPT
                     !.pc = "returned",
                     !.x_expr = XExpr(FirstToken(anchor.tokens, HorizontalWords)),
                     !.y_expr = YExpr(FirstToken(anchor.tokens, VerticalWords))]
    /\ UNCHANGED notAnchor

NextAnchor ==
    \/ TcTokens
    \/ TcAnchors

SpecAnchor == InitAnchor /\ [][NextAnchor]_vars

\* --------------------------------------------------- resolution of options
\* One call of render_project up to its first provider call: the options the
\* caller gave, the "video"/"vid" object of scenes.json and the environment
\* are drawn, and the settings are resolved as renderer.py:386-438 does.
\* A key the caller omitted is Absent (numbers) or None (strings).
Absent == 0 - 1

SettingsOpts ==
    [ttsApi : {None, "azure", "XTTS", "bogus"},
     tts_api : {None},
     tts : {None, "narrator", "en-US-GuyNeural"},
     ttsLanguage : {None, "fr"},
     fps : {Absent, 24},
     minShot : {Absent},
     maxShot : {Absent},
     crf : {Absent, 23},
     preset : {None, "fast"}]
SettingsMeta ==
    [api : {None, "azure", "polly"},
     tts_api : {None},
     voice : {None, "custom-voice", "narrator",
              "en-US-AdamMultilingualNeural"},
     language : {None, "es"},
     lang : {None, "en"}]
SettingsEnv ==
    [DEFAULT_TTS_API : {None}, XTTS_VOICE : {None},
     DEFAULT_TTS_VOICE : {None},
     AZURE_TTS_VOICE : {None, "'en-US-JennyNeural'", "en-US-AriaNeural"},
     XTTS_LANGUAGE : {None},
     DEFAULT_TTS_LANGUAGE : {None, "de"},
     DEFAULT_FPS : {None, "25"}]

\* int() on the strings drawn above
IntOf(text) == IF text = "25" THEN 25 ELSE 0

\* dict.get(key, default), for a number and for a string
Get(value, default) == IF value = Absent THEN default ELSE value
GetText(value, default) == IF value = None THEN default ELSE value

\* renderer.py:12-17, the defaults read from the environment at import
DEFAULT_PRESET == "medium"
DEFAULT_CRF == 18
DEFAULT_FPS(env) == IF env.DEFAULT_FPS = None THEN 30 ELSE IntOf(env.DEFAULT_FPS)
DEFAULT_MIN_SHOT == Millis(2500)
DEFAULT_MAX_SHOT == Seconds(8)
\* renderer.py:19-23
DEFAULT_TTS_LANGUAGE(env) ==
    Or(env.XTTS_LANGUAGE, Or(env.DEFAULT_TTS_LANGUAGE, "en"))

\* the script's language before the caller's
ScriptLanguageFirst(o, v, env) ==
    Or(v.language, Or(v.lang, Or(o.ttsLanguage, DEFAULT_TTS_LANGUAGE(env))))

\* renderer.py:427-432
ResolvedTtsLanguage(o, v, env) ==
    Or(o.ttsLanguage, Or(v.language, Or(v.lang, DEFAULT_TTS_LANGUAGE(env))))

\* renderer.py:404-405, 417-425 and 434-438: the lines logged
SettingsLogs(o, v, env) ==
    LET lowered == LoweredTtsApi(o, v, env)
        provider == FallbackApi(lowered)
        requested == RequestedVoice(o, v, env, provider)
    IN (IF lowered \in KnownApis THEN << >> ELSE <<"Unknown TTS api">>)
       \o (IF provider = "azure" /\ ~Falsy(requested) /\ ~HasDash(requested)
           THEN <<"Azure TTS overriding non-Azure voice">> ELSE << >>)
       \o <<"Selected TTS">>

InitSettings ==
    /\ CoreIdle
    /\ meter = MeterIdle
    /\ PipeIdle
    /\ alloc = AllocIdle
    /\ synth = SynthIdle
    /\ anchor = AnchorIdle
    /\ store = StoreIdle
    /\ \E o \in SettingsOpts, v \in SettingsMeta, env \in SettingsEnv :
          settings = [SettingsIdle EXCEPT
                         !.pc = "called", !.opts = o, !.video_meta = v,
                         !.environ = env]

\* renderer.py:386-438
StResolve ==
    /\ settings.pc = "called"
    /\ LET o == settings.opts
           v == settings.video_meta
           env == settings.environ
           provider == ResolvedTtsApi(o, v, env)
       IN settings' = [settings EXCEPT
                          !.pc = "resolved",
                          !.fps = Get(o.fps, DEFAULT_FPS(env)),
                          !.min_shot = Get(o.minShot, DEFAULT_MIN_SHOT),
                          !.max_shot = Get(o.maxShot, DEFAULT_MAX_SHOT),
                          !.preset = GetText(o.preset, DEFAULT_PRESET),
                          !.crf = ToString(Get(o.crf, DEFAULT_CRF)),
                          !.tts_api = provider,
                          !.tts_voice = ResolvedTtsVoice(o, v, env, provider),
                          !.tts_language = ResolvedTtsLanguage(o, v, env),
                          !.logs = SettingsLogs(o, v, env)]
    /\ UNCHANGED notSettings

\* renderer.py:463-481: the provider call of a scene with narration text and
\* no narration file
StSynthesize ==
    /\ settings.pc = "resolved"
    /\ settings' = [settings EXCEPT
                       !.pc = "synthesized",
                       !.synth_call =
                           [provider |-> ProviderFor(settings.tts_api),
                            voice |-> ProviderVoice(settings.tts_api,
                                                    settings.tts_voice,
                                                    settings.environ),
                            language |-> settings.tts_language]]
    /\ UNCHANGED notSettings

NextSettings ==
    \/ StResolve
    \/ StSynthesize

SpecSettings == InitSettings /\ [][NextSettings]_vars

\* ------------------------------------------------------ the storage volume
\* The directory of one project as the API (storage.py) and the worker
\* (worker.py:17, renderer.py:335-350) locate it.  A directory is a storage
\* root and a name under <root>/projects; meta is the sidecar record
\* <pid>.meta.json and legacy the directory named after the pid, both under
\* the API's root.
StorePid == "p1"
HomeDir == "/home/app"
Dir(root, name) == [root |-> root, name |-> name]
File(dir, name) == [dir |-> dir, name |-> name]

\* RENDER_STORAGE as the processes find it
StorageEnv == {None, "/data", "/srv/render", "~/render"}

\* Path(env_root).expanduser().resolve()
ExpandUser(path) == IF path = "~/render" THEN "/home/app/render" ELSE path

\* storage.py:42-46  Path.home() / "Videos", Path.cwd() / "videos",
\* Path(__file__).resolve().parents[2] / "videos"
Candidates == <<"/home/app/Videos", "/app/videos", "/videos">>

MetaChoicesOnDisk ==
    {[state |-> "absent", directory |-> None],
     [state |-> "unreadable", directory |-> None],
     [state |-> "present", directory |-> None],
     [state |-> "present", directory |-> "talk-0042"]}

\* storage.py:12-55  resolve_storage_root(); None is the RuntimeError
resolve_storage_root(env_root, writable) ==
    IF env_root \notin {None, ""}
    THEN (IF ExpandUser(env_root) \in writable THEN ExpandUser(env_root)
          ELSE None)
    ELSE LET usable == {k \in 1..Len(Candidates) : Candidates[k] \in writable}
         IN IF usable = {} THEN None
            ELSE Candidates[CHOOSE k \in usable : \A o \in usable : k <= o]

\* worker.py:17  Path(os.getenv("RENDER_STORAGE", "/data"))
WorkerStorageRoot(env_root) ==
    IF env_root = None THEN "/data" ELSE env_root

\* storage.py:74-88  _load_directory_from_meta; None when there is no usable
\* record
LoadDirectoryFromMeta(meta) ==
    IF meta.state = "present" /\ meta.directory \notin {None, ""}
    THEN meta.directory ELSE None

\* storage.py:138-147  proj_root
proj_root(root, meta, pid) ==
    IF LoadDirectoryFromMeta(meta) # None
    THEN Dir(root, LoadDirectoryFromMeta(meta))
    ELSE Dir(root, pid)

\* renderer.py:335-350  _resolve_project_root(pid, storage_root)
ResolveProjectRoot(pid, storage_root, meta) ==
    IF meta.state = "present" /\ meta.directory \notin {None, ""}
    THEN Dir(storage_root, meta.directory)
    ELSE Dir(storage_root, pid)

InitStore ==
    /\ CoreIdle
    /\ meter = MeterIdle
    /\ PipeIdle
    /\ alloc = AllocIdle
    /\ synth = SynthIdle
    /\ anchor = AnchorIdle
    /\ settings = SettingsIdle
    /\ \E env_root \in StorageEnv,
          writable \in SUBSET {"/data", "/home/app/render",
                               "/home/app/Videos", "/videos"},
          meta \in MetaChoicesOnDisk, legacy \in BOOLEAN :
          store = [StoreIdle EXCEPT
                      !.pc = "import", !.RENDER_STORAGE = env_root,
                      !.writable = writable, !.meta = meta,
                      !.legacy = legacy]

\* the API process imports app.storage (storage.py:58) and the worker
\* process app.worker (worker.py:17)
StoreImport ==
    /\ store.pc = "import"
    /\ LET root == resolve_storage_root(store.RENDER_STORAGE, store.writable)
       IN store' = [store EXCEPT
                       !.pc = IF root = None THEN "no_storage" ELSE "serving",
                       !.ROOT = root,
                       !.STORAGE_ROOT =
                           WorkerStorageRoot(store.RENDER_STORAGE)]
    /\ UNCHANGED notStore

\* storage.py:106-136 and 166-177: ensure_dirs(pid) keeps the directory of
\* the sidecar record, else the legacy directory, else allocates
\* <slug>-<4 digits> and writes the record; save_scenes then writes
\* proj_root(pid)/input/scenes.json  (api.py:110-126)
StoreScenes ==
    /\ store.pc = "serving"
    /\ \E suffix \in {"p1-0007", "p1-4711"} :
          LET kept == LoadDirectoryFromMeta(store.meta) # None \/ store.legacy
              meta == IF kept THEN store.meta
                      ELSE [state |-> "present", directory |-> suffix]
              target == proj_root(store.ROOT, meta, StorePid)
          IN store' = [store EXCEPT
                          !.pc = "stored",
                          !.meta = meta,
                          !.api_dir = target,
                          !.files = @ \cup {File(target, "input/scenes.json")}]
    /\ UNCHANGED notStore

\* api.py:129-152: an uploaded image is written under proj_root(pid)/input
StoreAsset ==
    /\ store.pc = "stored"
    /\ LET target == proj_root(store.ROOT, store.meta, StorePid)
       IN /\ File(target, "input/images/a.png") \notin store.files
          /\ store' = [store EXCEPT
                          !.files = @ \cup {File(target, "input/images/a.png")}]
    /\ UNCHANGED notStore

\* worker.py:71-78 and renderer.py:367-378: render_project(pid, STORAGE_ROOT,
\* ...) locates the project and looks for input/scenes.json.  The sidecar
\* record and the files the worker sees are those under its own root.
StoreRender ==
    /\ store.pc = "stored"
    /\ LET seen == IF store.STORAGE_ROOT = store.ROOT THEN store.meta
                   ELSE [state |-> "absent", directory |-> None]
           root == ResolveProjectRoot(StorePid, store.STORAGE_ROOT, seen)
       IN store' = [store EXCEPT
                       !.pc = "rendered",
                       !.worker_dir = root,
                       !.found = File(root, "input/scenes.json") \in store.files]
    /\ UNCHANGED notStore

NextStore ==
    \/ StoreImport
    \/ StoreScenes
    \/ StoreAsset
    \/ StoreRender

SpecStore == InitStore /\ [][NextStore]_vars






Terminal == {"SUCCEEDED", "FAILED"}
RenderLabels ==
    {"r_load", "r_validate", "r_scene", "r_audio_prep", "r_audio",
     "r_segments", "r_scene_build", "r_assemble", "r_concat_report",
     "r_concat", "r_finalize"}
\* the failures C5 lists, all raised by render_project's own statements
PipelineFailures ==
    {"ScenesFileMissing", "NoScenes", "SceneHasNoImages", "MissingImage",
     "CommandFailed", "TTSConfigurationError", "SynthesisFailed"}
ArtifactsOf(j) == {i \in 1..Len(artifacts) : artifacts[i].job_id = j}
StartedBefore(i) == {started[m] : m \in 1..(i - 1)}

\* C1: once a job's status is committed as SUCCEEDED or FAILED, no later step
\* changes that job's status, stage, progress or error.
C1_TerminalImmutable ==
    [][\A j \in DOMAIN jobs :
          jobs[j].status \in Terminal =>
              /\ jobs'[j].status = jobs[j].status
              /\ jobs'[j].stage = jobs[j].stage
              /\ jobs'[j].progress = jobs[j].progress
              /\ jobs'[j].error = jobs[j].error]_vars

\* C2: while a job is RUNNING, each progress value persisted for it is at
\* least the one persisted before.
C2_ProgressMonotone ==
    [][\A j \in DOMAIN jobs :
          (jobs[j].status = "RUNNING" /\ jobs'[j].status = "RUNNING") =>
              jobs'[j].progress >= jobs[j].progress]_vars

\* C3: a job has exactly one Artifact row if it is SUCCEEDED and none if it is
\* QUEUED, RUNNING or FAILED; and an Artifact row, once there, never changes
\* and is never removed.
C3_ArtifactIffSucceeded ==
    /\ [](\A j \in DOMAIN jobs :
            Cardinality(ArtifactsOf(j)) =
                IF jobs[j].status = "SUCCEEDED" THEN 1 ELSE 0)
    /\ [][\A i \in 1..Len(artifacts) :
            Len(artifacts') >= i /\ artifacts'[i] = artifacts[i]]_vars

\* C4: every status is QUEUED, RUNNING, SUCCEEDED or FAILED, and the only
\* status changes are QUEUED->RUNNING, RUNNING->SUCCEEDED and RUNNING->FAILED.
C4_StatusTransitions ==
    /\ [](\A j \in DOMAIN jobs :
            jobs[j].status \in {"QUEUED", "RUNNING", "SUCCEEDED", "FAILED"})
    /\ [][\A j \in DOMAIN jobs :
            \/ jobs'[j].status = jobs[j].status
            \/ <<jobs[j].status, jobs'[j].status>> \in
                  {<<"QUEUED", "RUNNING">>, <<"RUNNING", "SUCCEEDED">>,
                   <<"RUNNING", "FAILED">>}]_vars

\* C5: when the worker has handled a failure raised by render_project (its
\* except clause is over), the job is committed FAILED, stage ERROR, progress
\* 1.0, error the first 2000 characters of the message, and the job has no
\* Artifact row.
C5_FailureCommitted ==
    \A w \in Procs :
        (pc[w] \in {"finally", "dead"} /\ exc[w].kind \in PipelineFailures) =>
            /\ jobs[job[w]].status = "FAILED"
            /\ jobs[job[w]].stage = Stage("ERROR")
            /\ jobs[job[w]].progress = ProgressUnit
            /\ jobs[job[w]].error = [kind |-> exc[w].kind,
                                     len |-> Min(exc[w].len, ErrorLimit)]
            /\ ArtifactsOf(job[w]) = {}

\* C6: no job is left RUNNING: when a worker's loop has ended, by whatever
\* error, the job it had marked RUNNING has reached SUCCEEDED or FAILED.
C6_NoJobLeftRunning ==
    \A w \in Procs :
        pc[w] = "dead" =>
            \A j \in DOMAIN jobs : jobs[j].status # "RUNNING"

\* C7: jobs are started in creation order: when a job is marked RUNNING no
\* QUEUED job has an earlier creation time, and every job created before a
\* job that has been marked RUNNING was itself marked RUNNING earlier.
C7_StartedInCreationOrder ==
    /\ [][\A j \in DOMAIN jobs :
            (jobs[j].status = "QUEUED" /\ jobs'[j].status = "RUNNING") =>
                \A k \in DOMAIN jobs :
                    jobs[k].status = "QUEUED" =>
                        jobs[k].created_at >= jobs[j].created_at]_vars
    /\ [](\A i \in 1..Len(started) :
            \A k \in DOMAIN jobs :
                jobs[k].created_at < jobs[started[i]].created_at =>
                    k \in StartedBefore(i))

\* C7 witness: a job has just been marked RUNNING while a later job waits.
C7_Witness ==
    /\ pc["main"] = "open_log"
    /\ Len(started) >= 1
    /\ \E k \in Queued :
          jobs[k].created_at > jobs[started[Len(started)]].created_at

\* C8: at most one job is RUNNING, and while render_project runs for a job
\* every job started before it is SUCCEEDED or FAILED.
C8_OneAtATime ==
    /\ Cardinality({j \in DOMAIN jobs : jobs[j].status = "RUNNING"}) <= 1
    /\ \A w \in Procs :
          pc[w] \in RenderLabels =>
              \A i \in 1..Len(started) :
                  started[i] # job[w] =>
                      jobs[started[i]].status \in Terminal

\* C8 witness: render_project runs for the second job that was started.
C8_Witness ==
    /\ pc["main"] = "r_audio"
    /\ Len(started) = 2
    /\ job["main"] = started[2]
    /\ jobs[started[2]].status = "RUNNING"

\* C9: after the shutdown hook has set the stop event, no QUEUED job is
\* marked RUNNING any more.
C9_NoDequeueAfterStop ==
    [][stop_set =>
          \A j \in DOMAIN jobs :
              ~(jobs[j].status = "QUEUED" /\ jobs'[j].status = "RUNNING")]_vars

\* C10: the thread started by _start_inline_worker runs the worker loop: once
\* its runner has made the call, the thread is inside loop().
C10_InlineThreadRunsLoop ==
    thread_state \notin {"unstarted", "running"} =>
        (thread_state = "looping" /\ pc["inline"] # "off")

\* C11: the worker's select and its RUNNING update are two steps with no
\* claim between them: selecting leaves the row QUEUED for any other worker,
\* and a worker holding a selected job marks it RUNNING and goes on to render
\* it whatever the row's status has become, so two workers can both start
\* the same job.
C11_SelectThenMarkNotAtomic ==
    [][\A w \in Procs :
          /\ (pc[w] = "select" /\ pc'[w] = "mark") =>
                (jobs' = jobs /\ jobs[job'[w]].status = "QUEUED")
          /\ (pc[w] = "mark" /\ pc'[w] # "mark") =>
                /\ pc'[w] \in {"open_log", "dead"}
                /\ pc'[w] = "open_log" =>
                      /\ jobs'[job[w]].status = "RUNNING"
                      /\ started' = Append(started, job[w])]_vars

\* C11 witness: both workers selected the same job, both marked it RUNNING,
\* and render_project runs for it in both at once.
C11_Witness ==
    /\ job["main"] # NoJob
    /\ job["main"] = job["second"]
    /\ started = <<job["main"], job["second"]>>
    /\ pc["main"] \in RenderLabels
    /\ pc["second"] \in RenderLabels

\* the tuples a status query (api.py:193-210) may show for one job
ConsistentRow(r) ==
    \/ /\ r.status = "QUEUED"
       /\ r.stage = Stage("QUEUED")
       /\ r.progress = 0
       /\ r.error = NoError
    \/ /\ r.status = "RUNNING"
       /\ r.stage # Stage("QUEUED")
       /\ r.progress >= 2 * Hundredth
    \/ /\ r.status = "SUCCEEDED"
       /\ r.stage = Stage("FINALIZE")
       /\ r.progress = ProgressUnit
       /\ r.error = NoError
    \/ /\ r.status = "FAILED"
       /\ r.stage = Stage("ERROR")
       /\ r.progress = ProgressUnit
       /\ r.error # NoError
       /\ r.error.len >= 1

\* C12: every committed job row is one of the consistent tuples: QUEUED with
\* stage QUEUED and progress 0.0; RUNNING with a stage other than QUEUED and
\* progress at least 0.02; SUCCEEDED with stage FINALIZE, progress 1.0 and no
\* error; FAILED with stage ERROR, progress 1.0 and an error.  No row is
\* RUNNING with stage QUEUED or SUCCEEDED with an error.
C12_ConsistentTuples ==
    \A j \in DOMAIN jobs :
        /\ ConsistentRow(jobs[j])
        /\ ~(jobs[j].status = "RUNNING" /\ jobs[j].stage = Stage("QUEUED"))
        /\ ~(jobs[j].status = "SUCCEEDED" /\ jobs[j].error # NoError)

\* C12 witness: the table shows a QUEUED-then-finished history of each kind:
\* one job SUCCEEDED, another FAILED.
C12_Witness ==
    \E j, k \in DOMAIN jobs :
        /\ jobs[j].status = "SUCCEEDED"
        /\ jobs[k].status = "FAILED"

\* C13: the progress a job shows is within [0.0, 1.0] at every moment, for
\* every number of scenes: each value the pipeline reports is persisted as
\* min(1.0, value).
C13_ProgressInRange ==
    meter.pc # "idle" => (meter.progress >= 0 /\ meter.progress <= MeterUnit)

\* C13 witness: AUDIO_PREP was reported with a value above 1.0 and the job
\* shows 1.0.
C13_Witness ==
    /\ meter.pc = "scene_build"
    /\ AudioPrepValueAt(meter.n, meter.i) > MeterUnit
    /\ meter.progress = MeterUnit

\* the k-th checkpoint of a project of n scenes
ExpectedCheckpoint(k, n) ==
    CASE k = 1 -> [stage |-> "VALIDATE", scene |-> NoScene]
      [] k >= 2 /\ k <= 2 * n + 1 /\ k % 2 = 0 ->
            [stage |-> "AUDIO_PREP", scene |-> (k - 2) \div 2]
      [] k >= 2 /\ k <= 2 * n + 1 /\ k % 2 = 1 ->
            [stage |-> "SCENE_BUILD", scene |-> (k - 2) \div 2]
      [] k = 2 * n + 2 -> [stage |-> "CONCAT", scene |-> NoScene]
      [] k = 2 * n + 3 -> [stage |-> "FINALIZE", scene |-> NoScene]
      [] OTHER -> [stage |-> "none", scene |-> NoScene]

FinalizeReported ==
    \E k \in 1..Len(reported) : reported[k].stage = "FINALIZE"

\* C14: the checkpoints are reported in the order VALIDATE, then AUDIO_PREP
\* and SCENE_BUILD[i] for each scene i in list order, then CONCAT, then
\* FINALIZE; FINALIZE is reported, and render_project returns, only after the
\* clip of every scene was written and the final concatenation succeeded;
\* once a statement has raised, nothing more is reported or called.
C14_CheckpointOrder ==
    /\ [](/\ \A k \in 1..Len(reported) :
                reported[k] = ExpectedCheckpoint(k, scene_count)
          /\ FinalizeReported =>
                /\ scene_files = [i \in 1..scene_count |-> i - 1]
                /\ Len(events) >= 3
                /\ events[1] = UpdateEv("CONCAT", NoScene)
                /\ events[2] = RunEv("final_concat", NoScene, NoImage, 0)
                /\ events[3] = UpdateEv("FINALIZE", NoScene)
          /\ outcome = Returned =>
                /\ Len(reported) = 2 * scene_count + 3
                /\ \A k \in 1..Len(events) : events[k].e # "raise")
    /\ [][/\ rp_pc = "raised" =>
                (reported' = reported /\ events' = events
                    /\ rp_pc' = "raised")
          /\ scene_files' # scene_files =>
                /\ scene_files' = Append(scene_files, scene_index)
                /\ scene_index = Len(scene_files)
                /\ \A k \in 1..Len(events') : events'[k].e # "raise"
                /\ events'[Len(events')] =
                       RunEv("mux", scene_index, NoImage, 0)]_vars

\* C14 witness: a project of two scenes was rendered and its path returned.
C14_Witness ==
    /\ outcome = Returned
    /\ scene_count = 2
    /\ Len(reported) = 7

\* --- the audio of one scene
CountEv(evs, e, what) ==
    Cardinality({k \in 1..Len(evs) : evs[k].e = e /\ evs[k].what = what})

\* the calls that produce the scene's audio track
AudioEvents ==
    {k \in 1..Len(events) :
        \/ events[k].e = "tts"
        \/ events[k].e = "run" /\ events[k].what \in {"normalize", "silence"}}
AudioAttempted == AudioEvents # {}
PastAudio ==
    rp_pc \in {"probe_audio", "segment", "scene_build", "probe_segment",
               "concat_segments", "title", "mux"}
\* lines 396-426 have been executed
OptionsResolved == tts_api # None

\* the provider named by the caller's render options, else by the script's
\* video settings, in lower case; "" when neither names one
GivenTtsApi ==
    IF ~Falsy(opts.ttsApi) THEN Lower(opts.ttsApi)
    ELSE IF ~Falsy(video_meta.api) THEN Lower(video_meta.api)
    ELSE ""
OtherApi(name) == IF name = "xtts" THEN "azure" ELSE "xtts"

\* C15 as stated: given ttsApi "xtts" (or "azure"), in the render options or
\* in the video settings, the HTTP provider (the managed-SDK provider) is
\* invoked exactly once for every scene with non-empty narration text, and the
\* other provider never.
C15_OncePerTextScene ==
    (OptionsResolved /\ GivenTtsApi \in KnownApis) =>
        /\ CountEv(events, "tts", OtherApi(GivenTtsApi)) = 0
        /\ PastAudio => AudioAttempted
        /\ CountEv(events, "tts", GivenTtsApi) =
              (IF AudioAttempted /\ scene.VO # "" THEN 1 ELSE 0)

\* C15 amended: given ttsApi "xtts" (or "azure"), in the render options or in
\* the video settings, the HTTP provider (the managed-SDK provider) is invoked
\* exactly once for every scene that has no pre-supplied narration file and
\* whose narration text is not blank, never for any other scene, and the other
\* provider never.
C15_OncePerSynthesizedScene ==
    (OptionsResolved /\ GivenTtsApi \in KnownApis) =>
        /\ CountEv(events, "tts", OtherApi(GivenTtsApi)) = 0
        /\ PastAudio => AudioAttempted
        /\ \A k \in 1..Len(events) :
               events[k].e = "tts" => events[k].scene = scene_index
        /\ CountEv(events, "tts", GivenTtsApi) =
              (IF AudioAttempted /\ scene.voice_path = None
                    /\ Strip(scene.VO) # ""
               THEN 1 ELSE 0)

\* C15 witness: the video settings select azure, the render options name no
\* provider, and the second scene's narration was synthesized by azure.
C15_Witness ==
    /\ opts.ttsApi = None
    /\ video_meta.api = "azure"
    /\ scene_index = 1
    /\ rp_pc = "mux"
    /\ CountEv(events, "tts", "azure") = 1

\* the audio source of the scene by the stated priority, and by the code's
SourceOfEvent(ev) ==
    CASE ev.e = "tts" -> "tts"
      [] ev.e = "run" /\ ev.what = "normalize" -> "file"
      [] OTHER -> "silence"
SilenceMs(text) ==
    LET spoken == (Words(text) * 60000) \div 165
    IN IF spoken >= 5000 THEN spoken ELSE 5000
OneAudioSource(source) ==
    /\ PastAudio => AudioAttempted
    /\ AudioAttempted =>
          /\ Cardinality(AudioEvents) = 1
          /\ \A k \in AudioEvents :
                /\ events[k].scene = scene_index
                /\ SourceOfEvent(events[k]) = source
                /\ source = "tts" => events[k].what = tts_api
                /\ source = "silence" => events[k].ms = SilenceMs(scene.VO)

\* C16 as stated: each scene gets exactly one audio source: the pre-supplied
\* narration file if there is one, else TTS by the selected provider if the
\* narration text is non-empty, else silence of max(5 s, words/165*60 s).
C16_AudioSourcePriority ==
    OneAudioSource(IF scene.voice_path # None THEN "file"
                   ELSE IF scene.VO # "" THEN "tts"
                   ELSE "silence")

\* C16 amended: each scene gets exactly one audio source: the pre-supplied
\* narration file if there is one, else TTS by the selected provider if the
\* narration text is not blank (has a character other than whitespace), else
\* silence of max(5 s, words/165*60 s).
C16_AudioSourcePriorityNonBlank ==
    OneAudioSource(IF scene.voice_path # None THEN "file"
                   ELSE IF Strip(scene.VO) # "" THEN "tts"
                   ELSE "silence")

\* C16 witness: a scene with narration text and a pre-supplied file: the file
\* was converted and no provider was called.
C16_Witness ==
    /\ rp_pc = "probe_audio"
    /\ scene.voice_path # None
    /\ scene.VO = "Hello world"
    /\ CountEv(events, "run", "normalize") = 1
    /\ CountEv(events, "tts", tts_api) = 0

\* C17: when the provider call for scene i raises, render_project raises: a
\* configuration error as it is, any other error wrapped with the scene
\* index; no silent track is generated, no call follows for this or a later
\* scene, and CONCAT and FINALIZE are not reported.
C17_TtsFailureIsFatal ==
    /\ [](\A k \in 1..Len(events) :
            events[k].e = "provider_raised" =>
                /\ rp_pc = "raised"
                /\ k + 1 = Len(events)
                /\ events[k - 1].e = "tts"
                /\ events[k].scene = scene_index
                /\ events[k].what = "TTSConfigurationError" =>
                      /\ outcome = Raised("TTSConfigurationError", NoScene)
                      /\ events[k + 1] =
                            RaiseEv("TTSConfigurationError", NoScene)
                /\ events[k].what # "TTSConfigurationError" =>
                      /\ outcome = Raised("SynthesisFailed", scene_index)
                      /\ events[k + 1] =
                            RaiseEv("SynthesisFailed", scene_index)
                /\ CountEv(events, "run", "silence") = 0
                /\ Len(scene_files) = scene_index
                /\ \A r \in 1..Len(reported) :
                      reported[r].stage \notin {"CONCAT", "FINALIZE"})
    /\ [][outcome.kind \in {"TTSConfigurationError", "SynthesisFailed"} =>
              UNCHANGED pipeVars]_vars

\* C17 witness: the provider failed for the first of two scenes.
C17_Witness ==
    /\ outcome = Raised("SynthesisFailed", 0)
    /\ scene_count = 2
    /\ CountEv(events, "provider_raised", "Exception") = 1

\* the options with "xtts" in place of the provider they name
AsIfXtts == [opts EXCEPT !.ttsApi = "xtts"]
Unrecognized ==
    IF GivenTtsApi = "" THEN DEFAULT_TTS_API(environ) \notin {"xtts", "azure"}
    ELSE GivenTtsApi \notin {"xtts", "azure"}

\* C18: a provider name that is neither "xtts" nor "azure" in any case is
\* answered with a logged warning, and from then on the provider, the voice
\* and every provider call are those of a render with "xtts" selected; a
\* recognized name logs no warning.
C18_UnknownApiIsXtts ==
    OptionsResolved =>
        /\ rp_pc = "validate" =>
              events = (IF Unrecognized THEN <<LogEv("Unknown TTS api")>>
                        ELSE << >>)
        /\ Unrecognized =>
              /\ tts_api = "xtts"
              /\ tts_api = ResolvedTtsApi(AsIfXtts, video_meta, environ)
              /\ tts_voice = ResolvedTtsVoice(AsIfXtts, video_meta, environ,
                                              "xtts")
              /\ \A k \in 1..Len(events) :
                    events[k].e = "tts" =>
                        events[k] =
                            TtsEv("xtts", scene_index,
                                  ProviderVoice("xtts", tts_voice, environ))
              /\ PastAudio => AudioAttempted

\* C18 witness: "bogus" was selected while the environment names an Azure
\* voice: the narration was synthesized by xtts with the xtts default voice.
C18_Witness ==
    /\ opts.ttsApi = "bogus"
    /\ opts.tts = None
    /\ environ.AZURE_TTS_VOICE # None
    /\ rp_pc = "probe_audio"
    /\ \E k \in 1..Len(events) : events[k] = TtsEv("xtts", scene_index, "p263")

\* the claim's reading of a complete, valid timeline: every entry names an
\* image and has a positive numeric duration, and the entries' images are the
\* scene's images, name by name as often
CountOf(s, name) == Cardinality({k \in 1..Len(s) : s[k] = name})
EntriesOf(timeline, name) ==
    Cardinality({k \in 1..Len(timeline) : timeline[k].image = name})
ValidTimeline ==
    /\ \A k \in 1..Len(alloc.timeline) :
          /\ alloc.timeline[k].image # ""
          /\ alloc.timeline[k].numeric
          /\ alloc.timeline[k].duration > 0
    /\ \A name \in ImageNames :
          CountOf(alloc.images, name) = EntriesOf(alloc.timeline, name)
TimelineSum ==
    SumSeq([k \in 1..Len(alloc.timeline) |-> alloc.timeline[k].duration])
TargetTotal == Max(TimelineSum, Max(alloc.duration, alloc.audio_duration))
\* the tolerance of the comparison: 1e-3, the difference the code itself
\* leaves unstretched
Tolerance == Millis(1)
OneFrame == Seconds(1) \div (IF alloc.fps >= 1 THEN alloc.fps ELSE 1)
\* the total by which timeline durations fall short of one frame
SubFrameShortfall ==
    SumSeq([k \in 1..Len(alloc.timeline) |->
               IF alloc.timeline[k].duration < OneFrame
               THEN OneFrame - alloc.timeline[k].duration ELSE 0])
TimelineReturned == alloc.pc \in {"timeline", "timeline_used", "even_used"}

\* C19 as stated: for a complete, valid timeline the durations returned by
\* _timeline_durations sum to max(timelineSum, explicitSceneDuration,
\* audioDuration) within tolerance.
C19_SumIsTarget ==
    (TimelineReturned /\ ValidTimeline) =>
        /\ Len(alloc.timeline_durations) = Len(alloc.images)
        /\ SumSeq(alloc.timeline_durations) >= TargetTotal - Tolerance
        /\ SumSeq(alloc.timeline_durations) <= TargetTotal + Tolerance

\* C19 amended: for a complete, valid timeline the durations returned by
\* _timeline_durations sum to max(timelineSum, explicitSceneDuration,
\* audioDuration) within tolerance when every timeline duration is at least
\* one frame (1/max(1, fps)); a shorter one is raised to one frame, and the
\* sum is then never below that maximum and exceeds it by at most the total
\* raised.
C19_SumIsTargetAboveOneFrame ==
    (TimelineReturned /\ ValidTimeline) =>
        /\ Len(alloc.timeline_durations) = Len(alloc.images)
        /\ \A i \in 1..Len(alloc.timeline_durations) :
              alloc.timeline_durations[i] >= OneFrame
        /\ SumSeq(alloc.timeline_durations) >= TargetTotal - Tolerance
        /\ SumSeq(alloc.timeline_durations)
              <= TargetTotal + Tolerance + SubFrameShortfall

\* C19 witness: the timeline [a.png: 2.0] with explicit scene duration 5.0 and
\* audio duration 1.0 has returned 5.0 for a.png.
C19_Witness ==
    /\ alloc.pc = "timeline_used"
    /\ alloc.images = <<"a.png">>
    /\ alloc.timeline = <<Entry("a.png", TRUE, Seconds(2))>>
    /\ alloc.duration = Seconds(5)
    /\ alloc.audio_duration = Seconds(1)
    /\ alloc.per_image_durations = <<Seconds(5)>>

\* clamp(lo, hi, x) for lo <= hi
ClampTo(lo, hi, x) == IF x < lo THEN lo ELSE IF x > hi THEN hi ELSE x
EvenShare ==
    (IF alloc.audio_duration - Millis(400) >= Seconds(1)
     THEN alloc.audio_duration - Millis(400) ELSE Seconds(1))
        \div Len(alloc.images)
Allocated == alloc.pc \in {"timeline_used", "even_used"}

\* C20 as stated: when the timeline is absent or fails a validation, every
\* image gets the identical duration clamp(minShot, maxShot,
\* max(1.0, audioDuration - 0.4) / imageCount), which lies in
\* [minShot, maxShot], and no timeline-derived duration is used.
C20_EvenAllocation ==
    /\ (TimelineReturned /\ ~ValidTimeline) => alloc.timeline_durations = << >>
    /\ (Allocated /\ ~ValidTimeline) =>
          /\ alloc.pc = "even_used"
          /\ Len(alloc.per_image_durations) = Len(alloc.images)
          /\ \A i \in 1..Len(alloc.per_image_durations) :
                /\ alloc.per_image_durations[i] =
                      ClampTo(alloc.min_shot, alloc.max_shot, EvenShare)
                /\ alloc.per_image_durations[i] >= alloc.min_shot
                /\ alloc.per_image_durations[i] <= alloc.max_shot

\* C20 amended: when the timeline is absent or fails a validation, every
\* image gets the identical duration max(minShot, min(maxShot,
\* max(1.0, audioDuration - 0.4) / imageCount)): the clamp, lying in
\* [minShot, maxShot], when minShot <= maxShot, and minShot when
\* minShot > maxShot; no timeline-derived duration is used.
C20_EvenAllocationOrderedBounds ==
    /\ (TimelineReturned /\ ~ValidTimeline) => alloc.timeline_durations = << >>
    /\ (Allocated /\ ~ValidTimeline) =>
          /\ alloc.pc = "even_used"
          /\ Len(alloc.per_image_durations) = Len(alloc.images)
          /\ \A i \in 1..Len(alloc.per_image_durations) :
                IF alloc.min_shot <= alloc.max_shot
                THEN /\ alloc.per_image_durations[i] =
                           ClampTo(alloc.min_shot, alloc.max_shot, EvenShare)
                     /\ alloc.per_image_durations[i] >= alloc.min_shot
                     /\ alloc.per_image_durations[i] <= alloc.max_shot
                ELSE alloc.per_image_durations[i] = alloc.min_shot

\* C20 witness: two images, a timeline with an entry for only one of them,
\* 10 s of audio: each image got (10 - 0.4) / 2 = 4.8 s, between the bounds.
C20_Witness ==
    /\ alloc.pc = "even_used"
    /\ Len(alloc.images) = 2
    /\ Len(alloc.timeline) = 1
    /\ alloc.timeline[1].image # ""
    /\ alloc.timeline[1].numeric
    /\ alloc.timeline[1].duration > 0
    /\ alloc.audio_duration = Seconds(10)
    /\ alloc.min_shot = Millis(2500)
    /\ alloc.max_shot = Seconds(8)
    /\ alloc.per_image_durations = <<Millis(4800), Millis(4800)>>

\* the clips of the first n scenes, in scene order
ClipsOf(n) == [k \in 1..n |-> k - 1]
AfterLoop == rp_pc \in {"concat_report", "final_concat", "finalize", "returned"}
ConcatDone == rp_pc \in {"finalize", "returned"}

\* C21: a project of N >= 1 scenes yields N clips, one per scene in scene
\* order; the final concatenation runs exactly once, reads exactly those N
\* clips in that order and writes one file, named output_name, whose path
\* render_project returns.
C21_ClipsConcatenatedOnce ==
    /\ scene_files = ClipsOf(Len(scene_files))
    /\ Len(scene_files) <= scene_count
    /\ AfterLoop => (scene_count >= 1 /\ Len(scene_files) = scene_count)
    /\ final.concat_inputs # << >> =>
          (scene_count >= 1 /\ final.concat_inputs = ClipsOf(scene_count))
    /\ final.written # None =>
          (ConcatDone \/ (rp_pc = "raised" /\ outcome.kind = "CallbackError"))
    /\ ConcatDone =>
          /\ CountEv(events, "run", "final_concat") = 1
          /\ final.concat_inputs = ClipsOf(scene_count)
          /\ final.written = final.output_name
    /\ (rp_pc = "returned") = (final.returned # None)
    /\ rp_pc = "returned" => final.returned = final.output_name

\* C21 witness: a two-scene project named out.mp4 has returned.
C21_Witness ==
    /\ rp_pc = "returned"
    /\ scene_count = 2
    /\ final.output_name = "out.mp4"
    /\ final.concat_inputs = <<0, 1>>
    /\ final.returned = "out.mp4"

\* C22: when an image of a scene is missing, render_project fails without
\* having run the transcoder for any segment of that scene: every image of
\* the scene is checked before the first segment is synthesized.
C22_ImagesCheckedBeforeSegments ==
    outcome.kind = "MissingImage" =>
        /\ outcome.scene = scene_index
        /\ CountEv(events, "run", "segment") = 0

\* an external invocation: a transcoder command, a probe, or a provider call
External(ev) == ev.e \in {"run", "probe", "tts"}
SameCall(a, b) ==
    /\ a.e = b.e
    /\ a.what = b.what
    /\ a.scene = b.scene
    /\ a.img = b.img

C26_FontNeededOnlyForTitle ==
    outcome.kind = "FontNotFound" =>
        /\ rp_pc = "raised"
        /\ scene.title \notin {None, ""}
        /\ Strip(scene.title) # ""

SynthDone == synth.pc \in {"returned", "raised"}
AzureCall == synth.fn = "synthesize_azure"
FailedAttempts == Len(synth.errors)
\* the speak_text_async calls made so far
AttemptsMade == IF synth.pc = "attempt" THEN synth.attempt - 1 ELSE synth.attempt

\* C24: synthesize_azure with retry count r makes at most max(1, r) attempts,
\* returns at the first attempt that completes, raises the error of the last
\* attempt when every attempt failed, and always terminates.
C24_BoundedRetries ==
    /\ [](AzureCall =>
            /\ AttemptsMade <= (IF synth.retries >= 1 THEN synth.retries ELSE 1)
            /\ synth.pc = "returned" =>
                  /\ AttemptsMade >= 1
                  /\ FailedAttempts = AttemptsMade - 1
            /\ (synth.pc = "raised"
                  /\ synth.error.kind # "TTSConfigurationError") =>
                  /\ AttemptsMade =
                        (IF synth.retries >= 1 THEN synth.retries ELSE 1)
                  /\ FailedAttempts = AttemptsMade
                  /\ synth.error = synth.errors[AttemptsMade]
                  /\ synth.error.attempt = AttemptsMade)
    /\ (AzureCall => <>SynthDone)

\* C24 witness: three attempts of a call with retries = 3 have failed, the
\* second by exception and the third by cancellation, and the cancellation
\* was raised.
C24_Witness ==
    /\ AzureCall
    /\ synth.pc = "raised"
    /\ synth.retries = 3
    /\ Len(synth.errors) = 3
    /\ synth.errors[2].kind = "Exception"
    /\ synth.error = SynthError("Canceled", 3)

\* C25: a configuration error is never retried: synthesize_azure without key
\* or region raises it after no attempt and no sleep, and synthesize_xtts
\* without a configured endpoint raises it after no HTTP request.
C25_ConfigErrorNotRetried ==
    /\ (AzureCall /\ synth.sdk /\ ~(synth.key /\ synth.region)
          /\ synth.pc \notin {"import", "credentials"}) =>
          /\ synth.pc = "raised"
          /\ synth.error.kind = "TTSConfigurationError"
          /\ synth.attempt = 0
          /\ synth.sleeps = 0
    /\ (synth.fn = "synthesize_xtts" /\ Falsy(synth.api_url)
          /\ Falsy(synth.env_url) /\ synth.pc # "resolve") =>
          /\ synth.pc = "raised"
          /\ synth.error.kind = "TTSConfigurationError"
          /\ synth.posts = 0

\* the anchors the claim names for the two words of a position keyword
AnchorY(v) ==
    CASE v = "top" -> "h*0.08"
      [] v = "bottom" -> "h-text_h-h*0.08"
      [] OTHER -> "(h-text_h)/2"
AnchorX(h) ==
    CASE h = "left" -> "w*0.08"
      [] h = "right" -> "w-text_w-w*0.08"
      [] OTHER -> "(w-text_w)/2"

\* C29: for every position '<v>-<h>' or '<v>_<h>' with v in {top, bottom,
\* middle, center} and h in {left, right, middle, center} the y anchor is the
\* one v names and the x anchor the one h names; an absent or empty position
\* gives centred-top.
C29_AnchorsFollowKeyword ==
    anchor.pc = "returned" =>
        /\ (~anchor.given \/ anchor.parts = << >>) =>
              /\ anchor.x_expr = "(w-text_w)/2"
              /\ anchor.y_expr = "h*0.08"
        /\ (/\ Len(anchor.parts) = 2
            /\ anchor.parts[1] \in {"top", "bottom", "middle", "center"}
            /\ anchor.parts[2] \in {"left", "right", "middle", "center"}) =>
              /\ anchor.y_expr = AnchorY(anchor.parts[1])
              /\ anchor.x_expr = AnchorX(anchor.parts[2])

\* C30: for a complete, valid timeline and fps >= 1 no duration returned by
\* _timeline_durations is below 1/fps, and in both allocation modes every
\* segment gets frames = max(1, round(duration * fps)) >= 1.
C30_AtLeastOneFrame ==
    /\ (TimelineReturned /\ ValidTimeline /\ alloc.fps >= 1) =>
          \A i \in 1..Len(alloc.timeline_durations) :
             alloc.timeline_durations[i] * alloc.fps >= Seconds(1)
    /\ alloc.frames # << >> =>
          /\ Len(alloc.frames) = Len(alloc.images)
          /\ \A i \in 1..Len(alloc.frames) :
                LET exact == alloc.per_image_durations[i] * alloc.fps
                    shown == alloc.frames[i] * Seconds(1)
                IN /\ alloc.frames[i] >= 1
                   /\ \/ alloc.frames[i] = 1 /\ 2 * exact < 3 * Seconds(1)
                      \/ /\ 2 * (shown - exact) <= Seconds(1)
                         /\ 2 * (exact - shown) <= Seconds(1)

\* C30 witness: a valid timeline gives a.png 0.01 s at 30 fps: the duration
\* returned is one frame, and the segment has one frame.
C30_Witness ==
    /\ alloc.pc = "timeline_used"
    /\ alloc.fps = 30
    /\ alloc.images = <<"a.png", "b.png">>
    /\ alloc.timeline = <<Entry("b.png", TRUE, Seconds(2)),
                          Entry("a.png", TRUE, Millis(10))>>
    /\ alloc.timeline_durations[1] * 30 = Seconds(1)
    /\ alloc.frames # << >>
    /\ alloc.frames[1] = 1

\* the rows that differ between this state and the next
ChangedJobs == {j \in 1..Len(jobs) : jobs'[j] # jobs[j]}
\* the worker w takes this step
Steps(w) == pc'[w] # pc[w]
NoWorkerSteps == pc' = pc

\* C27: a Job row is created only by a render request, as QUEUED / QUEUED /
\* 0.0 with the request as payload; afterwards only the worker that dequeued
\* it changes it: no API operation changes or removes a row, a worker step
\* changes no other row, and a worker that finds no QUEUED job changes neither
\* table.
C27_JobFrame ==
    [][/\ Len(jobs') \in {Len(jobs), Len(jobs) + 1}
       /\ Len(jobs') = Len(jobs) + 1 =>
             /\ api = "serving"
             /\ NoWorkerSteps
             /\ ChangedJobs = {}
             /\ artifacts' = artifacts
             /\ \E pid \in Pids, o \in OutputNames :
                   /\ jobs'[Len(jobs')] = QueuedRow(pid, o, now)
                   /\ projects'[pid].last_output_name = o
       /\ NoWorkerSteps => (ChangedJobs = {} /\ artifacts' = artifacts)
       /\ \A w \in Procs :
             Steps(w) =>
                /\ Len(jobs') = Len(jobs)
                /\ ChangedJobs \subseteq {job[w]}
                /\ ChangedJobs # {} => pc[w] \notin {"select", "off", "dead"}
                /\ (pc[w] = "select" /\ OldestQueued = NoJob) =>
                      (jobs' = jobs /\ artifacts' = artifacts)
                /\ artifacts' # artifacts =>
                      /\ Len(artifacts') = Len(artifacts) + 1
                      /\ artifacts'[Len(artifacts')].job_id = job[w]
      ]_vars

\* C27 witness: two jobs of one project; the worker has dequeued the first
\* and reported a stage for it, and the second is as the request created it.
C27_Witness ==
    /\ Len(jobs) = 2
    /\ job["main"] = 1
    /\ jobs[1].status = "RUNNING"
    /\ jobs[1].stage = Stage("AUDIO_PREP")
    /\ jobs[2] = QueuedRow("p1", "video.mp4", jobs[2].created_at)

\* C28: the log file opened for a dequeued job is closed on every exit path
\* of the iteration: when the iteration has ended, by reaching the next one
\* or by an exception leaving loop(), the handle is not open.
C28_LogClosedOnEveryExit ==
    \A w \in Procs : pc[w] \in {"off", "select", "dead"} => ~log_open[w]

\* C31: the zoom expression of a segment never divides by zero: with
\* frames <= 1 it is the constant 1, otherwise it divides by frames - 1 >= 1;
\* and the -frames:v cap of the segment equals the frames value given to the
\* zoom filter as its duration d.
C31_ZoomNeverDividesByZero ==
    \A i \in 1..Len(alloc.segments) :
       LET seg == alloc.segments[i]
           frames == alloc.frames[i]
       IN /\ (frames <= 1) = seg.z.constant
          /\ ~seg.z.constant =>
                (seg.z.zoom_steps = frames - 1 /\ seg.z.zoom_steps >= 1)
          /\ seg.frames_v = frames
          /\ seg.d = seg.frames_v

\* C31 witness: a scene of two segments, one of a single frame with the
\* constant zoom and one of several frames with the ramp.
C31_Witness ==
    /\ Len(alloc.segments) = 2
    /\ alloc.frames[1] = 1
    /\ alloc.segments[1].z.constant
    /\ alloc.frames[2] > 1
    /\ alloc.segments[2].z.zoom_steps = alloc.frames[2] - 1

\* C32: in synthesize_azure the k-th sleep follows failed attempt k, precedes
\* attempt k + 1 and lasts backoff^k seconds; nothing is slept after the
\* final attempt or after an attempt that succeeds, so a call that uses up
\* its n = max(1, retries) attempts has slept n - 1 times.
C32_BackoffBetweenAttempts ==
    AzureCall =>
       /\ synth.sleeps = Len(synth.delays)
       /\ \A k \in 1..Len(synth.delays) :
             synth.delays[k] =
                (IF k = 1 THEN synth.backoff
                 ELSE synth.delays[k - 1] * synth.backoff)
       /\ synth.pc \in {"attempt", "failed", "returned"} =>
             Len(synth.delays) = synth.attempt - 1
       /\ (synth.pc = "raised"
             /\ synth.error.kind # "TTSConfigurationError") =>
             /\ Len(synth.errors) =
                   (IF synth.retries >= 1 THEN synth.retries ELSE 1)
             /\ Len(synth.delays) = Len(synth.errors) - 1

\* C32 witness: a call with retries = 3 and backoff = 2 failed three times
\* and slept 2 s and then 4 s.
C32_Witness ==
    /\ AzureCall
    /\ synth.pc = "raised"
    /\ synth.retries = 3
    /\ synth.backoff = 2
    /\ Len(synth.errors) = 3
    /\ synth.delays = <<2, 4>>

\* the calls and checkpoints of the current iteration, or of the statements
\* before the loop
Work(ev) == External(ev) \/ ev.e = "update"

\* C33: when scenes.json is missing or has no scenes, render_project raises
\* with no checkpoint reported and no transcoder, probe or TTS call issued;
\* when scene i has no images it raises with no audio or video work done for
\* scene i and with no scene after i - 1 built.
C33_FailsBeforeAnyWork ==
    /\ outcome.kind \in {"ScenesFileMissing", "NoScenes"} =>
          /\ rp_pc = "raised"
          /\ reported = << >>
          /\ \A k \in 1..Len(events) : ~Work(events[k])
          /\ scene_files = << >>
          /\ tts_api = None
          /\ final.written = None
    /\ outcome.kind = "SceneHasNoImages" =>
          /\ rp_pc = "raised"
          /\ outcome.scene = scene_index
          /\ \A k \in 1..Len(events) : ~Work(events[k])
          /\ \A k \in 1..Len(reported) : reported[k].scene < outcome.scene
          /\ scene_files = ClipsOf(outcome.scene)
          /\ final.written = None

\* C33 witness: the first scene of a project was built and the second scene
\* has no images.
C33_Witness ==
    /\ outcome = Raised("SceneHasNoImages", 1)
    /\ Len(scene_files) = 1
    /\ \E k \in 1..Len(reported) : reported[k] = [stage |-> "SCENE_BUILD", scene |-> 0]

\* the first of three values that is not empty
Pick(first, second, third) ==
    IF first \notin {None, ""} THEN first
    ELSE IF second \notin {None, ""} THEN second
    ELSE third
Synthesized == settings.pc = "synthesized"
EmptyOptions ==
    /\ settings.opts.ttsApi = None
    /\ settings.opts.tts = None
    /\ settings.opts.ttsLanguage = None
\* the provider, voice and language by options, then script, then default
NamedProvider ==
    Pick(settings.opts.ttsApi, settings.video_meta.api, "xtts")
AzureDefaultVoice ==
    CASE settings.environ.AZURE_TTS_VOICE = None -> "en-US-AriaNeural"
      [] settings.environ.AZURE_TTS_VOICE = "'en-US-JennyNeural'" ->
            "en-US-JennyNeural"
      [] OTHER -> settings.environ.AZURE_TTS_VOICE
NamedVoice ==
    Pick(settings.opts.tts, settings.video_meta.voice,
         IF settings.synth_call.provider = "azure" THEN AzureDefaultVoice
         ELSE "p263")
NamedLanguage ==
    Pick(settings.opts.ttsLanguage,
         Pick(settings.video_meta.language, settings.video_meta.lang, None),
         Pick(settings.environ.DEFAULT_TTS_LANGUAGE, None, "en"))
LooksManaged(voice) ==
    voice \in {"en-US-AriaNeural", "en-US-JennyNeural", "en-US-GuyNeural",
               "en-US-AdamMultilingualNeural", "custom-voice"}
\* an encoding option the caller omitted has its default
EncodingDefaults ==
    /\ settings.fps =
          (IF settings.opts.fps # Absent THEN settings.opts.fps
           ELSE IF settings.environ.DEFAULT_FPS = "25" THEN 25 ELSE 30)
    /\ settings.opts.crf = Absent => settings.crf = "18"
    /\ settings.opts.crf = 23 => settings.crf = "23"
    /\ settings.preset =
          (IF settings.opts.preset = None THEN "medium"
           ELSE settings.opts.preset)
    /\ settings.opts.minShot = Absent => settings.min_shot = Millis(2500)
    /\ settings.opts.maxShot = Absent => settings.max_shot = Seconds(8)

\* C34 as stated: the provider, the voice and the language passed to the
\* provider call are the caller's render option, else the script's video
\* setting, else the configured default; encoding options the caller omitted
\* have their defaults.
C34_SettingsPrecedence ==
    Synthesized =>
       /\ settings.synth_call.provider \in
             {NamedProvider, Lower(NamedProvider)}
       /\ settings.synth_call.voice = NamedVoice
       /\ settings.synth_call.language = NamedLanguage
       /\ EncodingDefaults

\* C34, amended: as above, except that a provider name that is not
\* recognized is replaced by xtts, and that with the managed-SDK provider a
\* voice without "-" is replaced by the provider-specific default voice.
C34_SettingsPrecedenceKnown ==
    Synthesized =>
       /\ settings.synth_call.provider =
             (IF Lower(NamedProvider) \in {"xtts", "azure"}
              THEN Lower(NamedProvider) ELSE "xtts")
       /\ settings.synth_call.voice =
             (IF settings.synth_call.provider = "azure"
                   /\ ~LooksManaged(NamedVoice)
              THEN AzureDefaultVoice ELSE NamedVoice)
       /\ settings.synth_call.language = NamedLanguage
       /\ EncodingDefaults

\* C34 witness: with empty render options and every encoding option omitted,
\* the script's api azure, voice en-US-AdamMultilingualNeural and language en
\* reached synthesize_azure.
C34_Witness ==
    /\ Synthesized
    /\ EmptyOptions
    /\ settings.opts.fps = Absent
    /\ settings.opts.crf = Absent
    /\ settings.opts.preset = None
    /\ settings.environ.AZURE_TTS_VOICE = "en-US-AriaNeural"
    /\ settings.video_meta.api = "azure"
    /\ settings.synth_call =
          [provider |-> "azure", voice |-> "en-US-AdamMultilingualNeural",
           language |-> "en"]
    /\ settings.fps = 30
    /\ settings.crf = "18"
    /\ settings.preset = "medium"

\* the voice of the options, else of the script, else of AZURE_TTS_VOICE
AzureRequested ==
    Pick(settings.opts.tts, settings.video_meta.voice,
         IF settings.environ.AZURE_TTS_VOICE = None THEN None
         ELSE AzureDefaultVoice)
OverrideLogged ==
    \E k \in 1..Len(settings.logs) :
       settings.logs[k] = "Azure TTS overriding non-Azure voice"

\* C35: with the managed-SDK provider selected, a resolved voice that is
\* empty or has no "-" is replaced by the provider-specific default
\* (AZURE_TTS_VOICE if set, else en-US-AriaNeural), the replacement of a
\* non-empty voice is logged, and a voice with "-" is passed unchanged.
C35_AzureVoiceDefault ==
    (settings.pc \in {"resolved", "synthesized"}
          /\ settings.tts_api = "azure") =>
       /\ LooksManaged(AzureRequested) =>
             /\ settings.tts_voice = AzureRequested
             /\ Synthesized => settings.synth_call.voice = AzureRequested
       /\ ~LooksManaged(AzureRequested) =>
             /\ settings.tts_voice = AzureDefaultVoice
             /\ Synthesized =>
                   /\ settings.synth_call.provider = "azure"
                   /\ settings.synth_call.voice = AzureDefaultVoice
                   /\ settings.synth_call.voice # settings.opts.tts
             /\ AzureRequested # None => OverrideLogged

\* C35 witness: azure with the caller's voice "narrator" and AZURE_TTS_VOICE
\* set: synthesize_azure got the environment's voice and the override was
\* logged.
C35_Witness ==
    /\ Synthesized
    /\ settings.opts.ttsApi = "azure"
    /\ settings.opts.tts = "narrator"
    /\ settings.environ.AZURE_TTS_VOICE = "'en-US-JennyNeural'"
    /\ settings.synth_call.provider = "azure"
    /\ settings.synth_call.voice = "en-US-JennyNeural"
    /\ OverrideLogged

\* C36: with one worker render_project is called at most once for a job: a
\* call is made for the job the worker dequeued, whose row is RUNNING by
\* then, and never for a job it was called for before.
C36_RenderedAtMostOnce ==
    /\ [](\A i \in 1..Len(invoked) : \A k \in 1..Len(invoked) :
             i # k => invoked[i] # invoked[k])
    /\ [](\A i \in 1..Len(invoked) :
             /\ \E k \in 1..Len(started) : started[k] = invoked[i]
             /\ jobs[invoked[i]].status # "QUEUED")
    /\ [][invoked' # invoked =>
             \E w \in Procs :
                /\ invoked' = Append(invoked, job[w])
                /\ jobs[job[w]].status = "RUNNING"
                /\ \A i \in 1..Len(invoked) : invoked[i] # job[w]]_vars

\* C36 witness: the render of the first job failed, and render_project has
\* been called for the second job.
C36_Witness ==
    /\ Len(invoked) = 2
    /\ jobs[invoked[1]].status = "FAILED"
    /\ invoked[2] # invoked[1]
    /\ jobs[invoked[2]].status = "RUNNING"

WasStarted(j) == \E k \in 1..Len(started) : started[k] = j

\* C37: with one worker running and renders that terminate, every job
\* inserted as QUEUED is eventually marked RUNNING, also when it is queued
\* behind a job whose render fails.
C37_QueuedEventuallyRunning ==
    \A j \in 1..MaxJobs :
       (j \in DOMAIN jobs /\ jobs[j].status = "QUEUED") ~> WasStarted(j)

\* the render of the first job failed, the handler's own log write raised,
\* and the second job is QUEUED with no worker left
WorkerEndedByFailedJob ==
    /\ Len(jobs) = 2
    /\ pc["main"] = "dead"
    /\ exc["main"].kind \in PipelineFailures
    /\ jobs[1].status = "RUNNING"
    /\ jobs[2].status = "QUEUED"

\* C38: for a scene rendered from a complete, valid timeline the per-image
\* durations sum to at least the scene's audio duration, so that the mux,
\* which ends with the shorter stream, does not cut the narration.
C38_TimelineCoversAudio ==
    (alloc.pc = "timeline_used" /\ ValidTimeline) =>
        SumSeq(alloc.per_image_durations) >= alloc.audio_duration

\* C39: the directory in which the API stored a project's scenes.json and
\* assets is the directory render_project reads, whatever the sidecar record
\* (present, absent, unreadable), the legacy directory (present, absent) and
\* RENDER_STORAGE (set, unset).
C39_SameProjectDirectory ==
    store.pc = "rendered" =>
       /\ store.worker_dir = store.api_dir
       /\ store.found

====
